---- MODULE Spec2Model ----
(***************************************************************************)
(* A model of the AiATC route-planning programs:                           *)
(*   src/bfs.py  AirportNetwork (airports, routes, hazard sets) and the    *)
(*               breadth-first router bfs_shortest_path;                   *)
(*   src/dfs.py  the depth-first emergency landing search;                 *)
(*   src/dls.py  FlightPathPlanner and its depth_limited_search.           *)
(*                                                                         *)
(* The specifications share the variables:                                 *)
(*   Spec          the network's mutating operations, in any order;        *)
(*   SpecToggle    update_congestion and update_weather on networks with   *)
(*                 hazard flags already set;                               *)
(*   SpecNeighbors one get_neighbors call on a built network;              *)
(*   SpecBFS       bfs_shortest_path, one loop iteration per step, on      *)
(*                 networks built by the mutating operations;              *)
(*   SpecDFS       emergency_landing_dfs, one loop iteration per step,     *)
(*                 with its recursion kept as an explicit stack of frames; *)
(*   SpecDLS       depth_limited_search, one dls_recursive entry, descent  *)
(*                 or return per step, on a built planner;                 *)
(*   SpecFrame     any one of the above activities per behaviour;          *)
(*   SpecBFSFair   SpecBFS on small networks, the loop weakly fair;        *)
(*   SpecDFSFair   SpecDFS, the search weakly fair;                        *)
(*   SpecDLSFair   SpecDLS on a planner that records no path, the search   *)
(*                 weakly fair;                                            *)
(*   SpecPlanner   add_weather_condition and add_traffic_zone calls, then  *)
(*                 one check_path_feasibility or estimate_travel_time      *)
(*                 call.                                                   *)
(***************************************************************************)
EXTENDS Integers, Sequences, FiniteSets, TLC

(***************************************************************************)
(* Bounds of the model.                                                    *)
(***************************************************************************)
\* Spec: the number of mutating calls in one behaviour.
MaxCalls == 3
\* SpecBFS: the number of add_route calls that build a network.
MaxRoutes == 5
\* SpecBFS: the number of update_congestion / update_weather calls (each).
MaxHazards == 1
\* SpecDFS: the length of the airports list.
MaxAirports == 3
\* SpecDFS: the largest max_depth a search is called with.
MaxDepthArg == 2
\* SpecDLS: the number of airports added to the planner.
MaxPlannerAirports == 2
\* SpecDLS: the largest max_depth a search is called with.
MaxSearchDepth == 2
\* SpecBFSFair: the number of add_route calls that build a network.
MaxLoopRoutes == 2
\* SpecPlanner: the number of add_weather_condition calls.
MaxWeatherConditions == 2
\* SpecPlanner: the number of add_traffic_zone calls.
MaxTrafficZones == 2

(***************************************************************************)
(* Values of the program.                                                  *)
(***************************************************************************)
\* Python's None, for a path (a found path is never empty: it holds start).
None == <<>>
\* float('inf'): larger than every finite distance or fuel of the model.
inf == 1000000
\* random.randint(0, 3) of add_route.
MinCongestionLevel == 0
MaxCongestionLevel == 3
CongestionLevels == MinCongestionLevel..MaxCongestionLevel

(***************************************************************************)
(* Inputs of Spec.                                                         *)
(***************************************************************************)
\* Airport codes the mutating calls are made with.
Codes == {"A", "B"}
\* Airport records (the name stands for the whole Airport object).
AirportNames == {"n1", "n2"}
\* (distance, fuel_efficiency) of a route; distances are multiples of 10 so
\* that distance * (11 - fuel_efficiency) / 10 is an integer.
RouteKinds == {<<100, 9>>, <<250, 5>>}

VARIABLES
    airports,                 \* self.airports: code -> Airport
    routes,                   \* self.routes: code -> list of (dest, dist, fuel, cong)
    congested_routes,         \* self.congested_routes: set of (origin, destination)
    weather_affected_routes,  \* self.weather_affected_routes
    n_calls,                  \* number of mutating calls made so far (Spec)
    bfs_pc,                   \* "idle", "loop" (inside while queue) or "returned"
    bfs_call,                 \* the arguments of the running bfs_shortest_path
    bfs_queue,                \* queue: sequence of (current, path, distance, fuel)
    bfs_visited,              \* visited
    bfs_result,               \* the returned (path, total_distance, total_fuel)
    dfs_pc,                   \* "idle", "running" or "returned"
    dfs_aircraft,             \* the aircraft the caller passes
    dfs_airports,             \* the airports list the caller passes
    dfs_max_depth,            \* max_depth
    dfs_stack,                \* the frames of emergency_landing_dfs, innermost last
    dfs_visited,              \* visited, shared by all frames
    dfs_result,               \* the airport returned to the caller, or None
    dfs_tests,                \* the calls of is_suitable_for_emergency made so far
    hazard_calls,             \* the update_congestion / update_weather calls made, in order
    neighbors_call,           \* the arguments of the last direct get_neighbors call
    neighbors_returned,       \* the list that call returned
    planner_airports,         \* FlightPathPlanner.airports, in insertion order
    weather_conditions,       \* FlightPathPlanner.weather_conditions
    traffic_zones,            \* FlightPathPlanner.traffic_zones
    dls_pc,                   \* "idle", "running", "sorting" or "returned"
    dls_call,                 \* the arguments of the running depth_limited_search
    suitable_airports,        \* suitable_airports: list of (airport, dist)
    dls_stack,                \* the frames of dls_recursive, innermost last
    viable_paths,             \* viable_paths
    dls_result,               \* the list returned to the caller
    dls_rng,                  \* the state of the random generator
    dls_draws,                \* number of waypoints sampled so far
    dls_entered,              \* number of dls_recursive calls made so far
    feasibility_call,         \* the arguments of the last direct check_path_feasibility call
    feasibility_returned,     \* the first element of the pair that call returned
    travel_time_call,         \* the arguments of the last direct estimate_travel_time call
    travel_time_returned      \* the time that call returned

net_vars == <<airports, routes, congested_routes, weather_affected_routes>>
bfs_vars == <<bfs_pc, bfs_call, bfs_queue, bfs_visited, bfs_result>>
dfs_vars == <<dfs_pc, dfs_aircraft, dfs_airports, dfs_max_depth, dfs_stack,
              dfs_visited, dfs_result, dfs_tests>>
planner_query_vars == <<feasibility_call, feasibility_returned, travel_time_call,
                        travel_time_returned>>
query_vars == <<neighbors_call, neighbors_returned, planner_query_vars>>
planner_vars == <<planner_airports, weather_conditions, traffic_zones>>
dls_vars == <<planner_vars, dls_pc, dls_call, suitable_airports, dls_stack,
              viable_paths, dls_result, dls_rng, dls_draws, dls_entered>>
vars == <<net_vars, n_calls, bfs_vars, dfs_vars, hazard_calls, query_vars, dls_vars>>

(***************************************************************************)
(* AirportNetwork: the mutating operations as functions of the old value.  *)
(***************************************************************************)
\* self.routes.get(code, [])
routes_get(rt, code) == IF code \in DOMAIN rt THEN rt[code] ELSE <<>>

\* add_airport: the airports table and the route table after the call.
airports_add_airport(ap, code, name) ==
    [c \in DOMAIN ap \cup {code} |-> IF c = code THEN name ELSE ap[c]]

\* add_airport with the adjacency entry assigned unconditionally.
routes_add_airport_resetting(rt, code) ==
    [c \in DOMAIN rt \cup {code} |-> IF c = code THEN <<>> ELSE rt[c]]

routes_add_airport(rt, code) ==
    IF code \in DOMAIN rt THEN rt
    ELSE [c \in DOMAIN rt \cup {code} |-> IF c = code THEN <<>> ELSE rt[c]]

\* add_route with only the origin's list appended to.
routes_add_route_one_way(rt, origin, destination, distance, fuel_efficiency, congestion) ==
    LET r0 == [c \in DOMAIN rt \cup {origin, destination} |-> routes_get(rt, c)]
    IN  [r0 EXCEPT ![origin] =
            Append(@, <<destination, distance, fuel_efficiency, congestion>>)]

\* add_route with only the destination's list appended to.
routes_add_route_inbound_only(rt, origin, destination, distance, fuel_efficiency, congestion) ==
    LET r0 == [c \in DOMAIN rt \cup {origin, destination} |-> routes_get(rt, c)]
    IN  [r0 EXCEPT ![destination] =
            Append(@, <<origin, distance, fuel_efficiency, congestion>>)]

\* add_route: the route table after the call; the two appends are made in turn,
\* so a route from an airport to itself is appended twice to the same list.
routes_add_route(rt, origin, destination, distance, fuel_efficiency, congestion) ==
    LET r0 == [c \in DOMAIN rt \cup {origin, destination} |-> routes_get(rt, c)]
        r1 == [r0 EXCEPT ![origin] =
                  Append(@, <<destination, distance, fuel_efficiency, congestion>>)]
    IN  [r1 EXCEPT ![destination] =
            Append(@, <<origin, distance, fuel_efficiency, congestion>>)]

\* update_congestion / update_weather that add only the pair as it is named.
pairs_update_one_way(pairs, origin, destination, flag) ==
    IF flag
    THEN pairs \cup {<<origin, destination>>}
    ELSE pairs \ {<<origin, destination>>, <<destination, origin>>}

\* update_congestion / update_weather that never take a pair out.
pairs_update_never_discards(pairs, origin, destination, flag) ==
    IF flag
    THEN pairs \cup {<<origin, destination>>, <<destination, origin>>}
    ELSE pairs

\* update_congestion / update_weather: the hazard set after the call.
pairs_update(pairs, origin, destination, flag) ==
    IF flag
    THEN pairs \cup {<<origin, destination>>, <<destination, origin>>}
    ELSE pairs \ {<<origin, destination>>, <<destination, origin>>}

(***************************************************************************)
(* The mutating operations as actions.                                     *)
(***************************************************************************)
\* A call is counted; the searches are not under way.
counted_call ==
    /\ n_calls < MaxCalls
    /\ n_calls' = n_calls + 1
    /\ UNCHANGED <<bfs_vars, dfs_vars, query_vars, dls_vars>>

add_airport(code, name) ==
    /\ counted_call
    /\ UNCHANGED hazard_calls
    /\ airports' = airports_add_airport(airports, code, name)
    /\ routes' = routes_add_airport(routes, code)
    /\ UNCHANGED <<congested_routes, weather_affected_routes>>

add_route(origin, destination, distance, fuel_efficiency) ==
    \E congestion \in CongestionLevels :
        /\ counted_call
        /\ UNCHANGED hazard_calls
        /\ routes' = routes_add_route(routes, origin, destination,
                                      distance, fuel_efficiency, congestion)
        /\ UNCHANGED <<airports, congested_routes, weather_affected_routes>>

update_congestion(origin, destination, is_congested) ==
    /\ counted_call
    /\ hazard_calls' = Append(hazard_calls, [op |-> "update_congestion",
                               args |-> <<origin, destination, is_congested>>])
    /\ congested_routes' =
           pairs_update(congested_routes, origin, destination, is_congested)
    /\ UNCHANGED <<airports, routes, weather_affected_routes>>

\* An update_weather that also clears the pair's congestion flag.
update_weather_clearing_congestion(origin, destination, is_affected) ==
    /\ counted_call
    /\ hazard_calls' = Append(hazard_calls, [op |-> "update_weather",
                               args |-> <<origin, destination, is_affected>>])
    /\ weather_affected_routes' =
           pairs_update(weather_affected_routes, origin, destination, is_affected)
    /\ congested_routes' =
           congested_routes \ {<<origin, destination>>, <<destination, origin>>}
    /\ UNCHANGED <<airports, routes>>

update_weather(origin, destination, is_affected) ==
    /\ counted_call
    /\ hazard_calls' = Append(hazard_calls, [op |-> "update_weather",
                               args |-> <<origin, destination, is_affected>>])
    /\ weather_affected_routes' =
           pairs_update(weather_affected_routes, origin, destination, is_affected)
    /\ UNCHANGED <<airports, routes, congested_routes>>

(***************************************************************************)
(* get_neighbors.                                                          *)
(***************************************************************************)
\* A sort key comparison that also puts an entry before entries of an equal key.
fuel_key_less_or_equal(x, y) == x[3] > y[3] \/ (x[3] = y[3] /\ x[2] <= y[2])

\* The sort key of line 94: fuel efficiency descending, then distance ascending.
fuel_key_less(x, y) == x[3] > y[3] \/ (x[3] = y[3] /\ x[2] < y[2])

\* list.sort is stable: an entry goes before the first entry of a strictly
\* greater key, after every entry of an equal key.
RECURSIVE insert_by_fuel(_, _)
insert_by_fuel(x, s) ==
    IF s = <<>> THEN <<x>>
    ELSE IF fuel_key_less(x, Head(s)) THEN <<x>> \o s
    ELSE <<Head(s)>> \o insert_by_fuel(x, Tail(s))

RECURSIVE sort_by_fuel(_)
sort_by_fuel(s) ==
    IF s = <<>> THEN <<>>
    ELSE insert_by_fuel(s[Len(s)], sort_by_fuel(SubSeq(s, 1, Len(s) - 1)))

\* A filter that keeps every entry, whatever the hazard sets hold.
filter_neighbors_unfiltered(airport_code, entries, avoid_congestion) == entries

\* A filter that looks at the congested set only.
RECURSIVE filter_neighbors_congestion_only(_, _, _)
filter_neighbors_congestion_only(airport_code, entries, avoid_congestion) ==
    IF entries = <<>> THEN <<>>
    ELSE LET e == Head(entries)
             skip == avoid_congestion /\ <<airport_code, e[1]>> \in congested_routes
             rest == filter_neighbors_congestion_only(airport_code, Tail(entries),
                                                      avoid_congestion)
         IN  IF skip THEN rest ELSE <<e>> \o rest

\* The loop of lines 85-90: the entries kept, in adjacency order.
RECURSIVE filter_neighbors(_, _, _)
filter_neighbors(airport_code, entries, avoid_congestion) ==
    IF entries = <<>> THEN <<>>
    ELSE LET e == Head(entries)
             skip == avoid_congestion
                     /\ (\/ <<airport_code, e[1]>> \in congested_routes
                         \/ <<airport_code, e[1]>> \in weather_affected_routes)
             rest == filter_neighbors(airport_code, Tail(entries), avoid_congestion)
         IN  IF skip THEN rest ELSE <<e>> \o rest

\* A get_neighbors that, sorting, keeps the best entry only.
get_neighbors_best_only(airport_code, avoid_congestion, prioritize_fuel) ==
    LET neighbors == filter_neighbors(airport_code, routes_get(routes, airport_code),
                                      avoid_congestion)
    IN  IF prioritize_fuel /\ neighbors # <<>>
        THEN <<Head(sort_by_fuel(neighbors))>>
        ELSE neighbors

get_neighbors(airport_code, avoid_congestion, prioritize_fuel) ==
    LET neighbors == filter_neighbors(airport_code, routes_get(routes, airport_code),
                                      avoid_congestion)
    IN  IF prioritize_fuel THEN sort_by_fuel(neighbors) ELSE neighbors

\* A lookup through an alias of the adjacency list, which the sort of line 94
\* then puts in order in place.
routes_after_get_sorting(rt, code) ==
    IF code \in DOMAIN rt THEN [rt EXCEPT ![code] = sort_by_fuel(@)] ELSE rt

\* A lookup that inserts the default it returns, as dict.setdefault does.
routes_after_get_defaulting(rt, code) ==
    IF code \in DOMAIN rt THEN rt
    ELSE [c \in DOMAIN rt \cup {code} |-> IF c = code THEN <<>> ELSE rt[c]]

\* The route table after self.routes.get(airport_code, []) of line 85:
\* dict.get inserts nothing.
routes_after_get(rt, code) == rt

\* A direct call of get_neighbors, one per behaviour.
get_neighbors_call(airport_code, avoid_congestion, prioritize_fuel) ==
    /\ ~neighbors_call.made
    /\ neighbors_call' = [airport_code |-> airport_code,
                          avoid_congestion |-> avoid_congestion,
                          prioritize_fuel |-> prioritize_fuel, made |-> TRUE]
    /\ neighbors_returned' = get_neighbors(airport_code, avoid_congestion,
                                           prioritize_fuel)
    /\ routes' = routes_after_get(routes, airport_code)
    /\ UNCHANGED <<airports, congested_routes, weather_affected_routes,
                   n_calls, hazard_calls, bfs_vars, dfs_vars, dls_vars,
                   planner_query_vars>>

(***************************************************************************)
(* bfs_shortest_path, one iteration of its while loop per step.            *)
(***************************************************************************)
\* The result of lines 111 and 140.
no_path == [path |-> None, total_distance |-> inf, total_fuel_consumption |-> inf]

\* A consumption proportional to the efficiency.
fuel_used_proportional(dist, fuel_eff) == (dist * fuel_eff) \div 10

\* Line 130; exact in integers for the distances of the model (multiples of 10).
fuel_used(dist, fuel_eff) == (dist * (11 - fuel_eff)) \div 10

\* A dequeue that takes the newest entry.
dequeue_newest(q) == [entry |-> q[Len(q)], rest |-> SubSeq(q, 1, Len(q) - 1)]

\* queue.popleft() of line 118.
dequeue(q) == [entry |-> Head(q), rest |-> Tail(q)]

\* A loop that leaves after the first neighbour it enqueues.
expand_first_only(entry, neighbors, q, vis) ==
    LET fresh == {i \in 1..Len(neighbors) : neighbors[i][1] \notin vis}
    IN  IF fresh = {} THEN [queue |-> q, visited |-> vis]
        ELSE LET n == neighbors[CHOOSE i \in fresh : \A j \in fresh : i <= j]
             IN  [queue |-> Append(q, [current          |-> n[1],
                                       path             |-> Append(entry.path, n[1]),
                                       distance         |-> entry.distance + n[2],
                                       fuel_consumption |-> entry.fuel_consumption
                                                            + (n[2] * (11 - n[3])) \div 10]),
                  visited |-> vis \cup {n[1]}]

\* A loop that enqueues every neighbour not yet marked and marks none.
RECURSIVE expand_without_marking(_, _, _, _)
expand_without_marking(entry, neighbors, q, vis) ==
    IF neighbors = <<>> THEN [queue |-> q, visited |-> vis]
    ELSE LET n == Head(neighbors)
             new == [current          |-> n[1],
                     path             |-> Append(entry.path, n[1]),
                     distance         |-> entry.distance + n[2],
                     fuel_consumption |-> entry.fuel_consumption + fuel_used(n[2], n[3])]
         IN  IF n[1] \notin vis
             THEN expand_without_marking(entry, Tail(neighbors), Append(q, new), vis)
             ELSE expand_without_marking(entry, Tail(neighbors), q, vis)

\* The for loop of lines 127-137 over the neighbours of the dequeued entry.
RECURSIVE expand(_, _, _, _)
expand(entry, neighbors, q, vis) ==
    IF neighbors = <<>> THEN [queue |-> q, visited |-> vis]
    ELSE LET n == Head(neighbors)
             new == [current          |-> n[1],
                     path             |-> Append(entry.path, n[1]),
                     distance         |-> entry.distance + n[2],
                     fuel_consumption |-> entry.fuel_consumption + fuel_used(n[2], n[3])]
         IN  IF n[1] \notin vis
             THEN expand(entry, Tail(neighbors), Append(q, new), vis \cup {n[1]})
             ELSE expand(entry, Tail(neighbors), q, vis)

bfs_return(result) ==
    /\ bfs_pc' = "returned"
    /\ bfs_result' = result
    /\ bfs_queue' = <<>>
    /\ bfs_visited' = {}

\* Lines 110-115: the call, up to the first test of the while loop.
bfs_shortest_path(start, goal, avoid_congestion, prioritize_fuel) ==
    /\ bfs_pc = "idle"
    /\ bfs_call' = [start |-> start, goal |-> goal,
                    avoid_congestion |-> avoid_congestion,
                    prioritize_fuel |-> prioritize_fuel]
    /\ IF start \notin DOMAIN airports \/ goal \notin DOMAIN airports
       THEN bfs_return(no_path)
       ELSE /\ bfs_pc' = "loop"
            /\ bfs_queue' = <<[current |-> start, path |-> <<start>>,
                               distance |-> 0, fuel_consumption |-> 0]>>
            /\ bfs_visited' = {start}
            /\ bfs_result' = no_path
    /\ UNCHANGED <<net_vars, n_calls, hazard_calls, query_vars, dls_vars,
                   dfs_vars>>

\* A goal test that accepts the goal only at the end of at least one edge.
bfs_goal_reached_needs_edge ==
    /\ bfs_pc = "loop"
    /\ bfs_queue # <<>>
    /\ LET e == dequeue(bfs_queue).entry
       IN  /\ e.current = bfs_call.goal
           /\ IF Len(e.path) > 1
              THEN bfs_return([path |-> e.path, total_distance |-> e.distance,
                               total_fuel_consumption |-> e.fuel_consumption])
              ELSE bfs_return(no_path)
    /\ UNCHANGED <<net_vars, n_calls, hazard_calls, query_vars, dls_vars, dfs_vars,
                   bfs_call>>

\* Lines 118-122: the dequeued node is the goal.
bfs_goal_reached ==
    /\ bfs_pc = "loop"
    /\ bfs_queue # <<>>
    /\ LET e == dequeue(bfs_queue).entry
       IN  /\ e.current = bfs_call.goal
           /\ bfs_return([path |-> e.path, total_distance |-> e.distance,
                          total_fuel_consumption |-> e.fuel_consumption])
    /\ UNCHANGED <<net_vars, n_calls, hazard_calls, query_vars, dls_vars, dfs_vars,
                   bfs_call>>

\* Lines 118-137: the dequeued node is not the goal and is expanded.
bfs_expand ==
    /\ bfs_pc = "loop"
    /\ bfs_queue # <<>>
    /\ LET d == dequeue(bfs_queue)
           e == d.entry
           x == expand(e, get_neighbors(e.current, bfs_call.avoid_congestion,
                                        bfs_call.prioritize_fuel),
                       d.rest, bfs_visited)
       IN  /\ e.current # bfs_call.goal
           /\ bfs_queue' = x.queue
           /\ bfs_visited' = x.visited
    /\ UNCHANGED <<net_vars, n_calls, hazard_calls, query_vars, dls_vars, dfs_vars,
                   bfs_pc, bfs_call, bfs_result>>

\* Lines 117 and 140: the queue is empty.
bfs_exhausted ==
    /\ bfs_pc = "loop"
    /\ bfs_queue = <<>>
    /\ bfs_return(no_path)
    /\ UNCHANGED <<net_vars, n_calls, hazard_calls, query_vars, dls_vars, dfs_vars,
                   bfs_call>>

\* The while loop of lines 117-140 run to its return, as a function of the
\* queue and the visited set it starts from.
RECURSIVE bfs_loop(_, _, _, _, _)
bfs_loop(queue, visited, goal, avoid_congestion, prioritize_fuel) ==
    IF queue = <<>> THEN no_path
    ELSE LET d == dequeue(queue)
             e == d.entry
         IN  IF e.current = goal
             THEN [path |-> e.path, total_distance |-> e.distance,
                   total_fuel_consumption |-> e.fuel_consumption]
             ELSE LET x == expand(e, get_neighbors(e.current, avoid_congestion,
                                                   prioritize_fuel),
                                  d.rest, visited)
                  IN  bfs_loop(x.queue, x.visited, goal, avoid_congestion,
                               prioritize_fuel)

\* What a call of bfs_shortest_path returns on the network as it stands.
bfs_shortest_path_result(start, goal, avoid_congestion, prioritize_fuel) ==
    IF start \notin DOMAIN airports \/ goal \notin DOMAIN airports
    THEN no_path
    ELSE bfs_loop(<<[current |-> start, path |-> <<start>>,
                     distance |-> 0, fuel_consumption |-> 0]>>,
                  {start}, goal, avoid_congestion, prioritize_fuel)

(***************************************************************************)
(* src/dfs.py: airports, aircraft and the suitability test.                *)
(*                                                                         *)
(* Positions lie on one meridian, where the haversine distance of          *)
(* calculate_distance is proportional to the difference of the latitudes   *)
(* and the midpoint of lines 195-198 lies on the great circle.  A position *)
(* is a latitude counted in sixteenths of the latitude step that costs one *)
(* unit of fuel, and fuel is counted in sixteenths of a unit, so that the  *)
(* midpoints of up to four successive moves are integers.                  *)
(***************************************************************************)
km(x) == x * 16

\* aircraft.emergency_status = None
no_emergency == [name |-> "None", required_facilities |-> {}]
\* The None that emergency_landing_dfs returns.
no_airport == [id |-> "None", position |-> 0, runway_length |-> 0, facilities |-> {},
               weather_condition |-> "", is_decoy |-> FALSE]
\* max_depth = None
no_max_depth == -1

\* Lines 70-83, on a meridian.
calculate_distance(pos1, pos2) == IF pos1 >= pos2 THEN pos1 - pos2 ELSE pos2 - pos1

\* sorted() is stable: an airport goes before the first airport strictly
\* farther, after every airport at the same distance.
RECURSIVE insert_by_distance(_, _, _)
insert_by_distance(position, x, s) ==
    IF s = <<>> THEN <<x>>
    ELSE IF calculate_distance(position, x.position)
            < calculate_distance(position, Head(s).position)
         THEN <<x>> \o s
    ELSE <<Head(s)>> \o insert_by_distance(position, x, Tail(s))

RECURSIVE sort_by_distance(_, _)
sort_by_distance(position, list) ==
    IF list = <<>> THEN <<>>
    ELSE insert_by_distance(position, list[Len(list)],
                            sort_by_distance(position, SubSeq(list, 1, Len(list) - 1)))

\* A reachability test with the comparison turned round.
can_reach_airport_reversed(aircraft, airport) ==
    aircraft.fuel_remaining <= calculate_distance(aircraft.position, airport.position)

\* Aircraft.can_reach_airport
can_reach_airport(aircraft, airport) ==
    aircraft.fuel_remaining >= calculate_distance(aircraft.position, airport.position)

\* str.lower() on the aircraft types of the model.
lower(s) == CASE s = "Large" -> "large" [] s = "JUMBO" -> "jumbo" [] OTHER -> s

\* The dictionary lookup of lines 94-99.
required_length(aircraft_type) ==
    CASE lower(aircraft_type) = "small"  -> 1000
      [] lower(aircraft_type) = "medium" -> 2000
      [] lower(aircraft_type) = "large"  -> 3000
      [] lower(aircraft_type) = "jumbo"  -> 3500
      [] OTHER -> 2000

\* Line 102.
severe_weather == {"severe_storm", "hurricane", "tornado"}

\* A baseline test that leaves the weather out.
meets_minimum_requirements_any_weather(airport, aircraft) ==
    airport.runway_length >= required_length(aircraft.aircraft_type)

meets_minimum_requirements(airport, aircraft) ==
    /\ airport.runway_length >= required_length(aircraft.aircraft_type)
    /\ airport.weather_condition \notin severe_weather

\* Airport.is_limited_facility; facilities holds the names whose entry is True.
major_facilities == {"medical", "maintenance", "fire_response", "refueling"}

is_limited_facility(airport) ==
    Cardinality(airport.facilities \cap major_facilities) <= 2

\* verify_emergency_landing_capability; rejected is random.random() < 0.5,
\* read only for a decoy.
verify_emergency_landing_capability(airport, emergency_type, rejected) ==
    IF airport.is_decoy /\ rejected THEN FALSE
    ELSE \A facility \in emergency_type.required_facilities :
             facility \in airport.facilities

\* The outcome of is_suitable_for_emergency with the path taken through it:
\* whether verify_emergency_landing_capability was called (line 154) and
\* whether it drew a random number (line 114).
suitability_decoys_unverified(airport, aircraft, rejected) ==
    LET emergency_type == aircraft.emergency_status
        no == [suitable |-> FALSE, verify_called |-> FALSE, random_drawn |-> FALSE]
        yes == [suitable |-> TRUE, verify_called |-> FALSE, random_drawn |-> FALSE]
    IN  IF ~can_reach_airport(aircraft, airport) THEN no
        ELSE IF ~meets_minimum_requirements(airport, aircraft) THEN no
        ELSE IF emergency_type = no_emergency THEN yes
        ELSE IF emergency_type.name = "medical" /\ "medical" \notin airport.facilities
             THEN no
        ELSE IF emergency_type.name = "fire" /\ "fire_response" \notin airport.facilities
             THEN no
        ELSE IF emergency_type.name = "mechanical"
                /\ "maintenance" \notin airport.facilities
             THEN no
        ELSE IF is_limited_facility(airport)
             THEN [suitable |-> verify_emergency_landing_capability(
                                    airport, emergency_type, rejected),
                   verify_called |-> TRUE,
                   random_drawn |-> airport.is_decoy]
        ELSE yes

suitability(airport, aircraft, rejected) ==
    LET emergency_type == aircraft.emergency_status
        no == [suitable |-> FALSE, verify_called |-> FALSE, random_drawn |-> FALSE]
        yes == [suitable |-> TRUE, verify_called |-> FALSE, random_drawn |-> FALSE]
    IN  IF ~can_reach_airport(aircraft, airport) THEN no
        ELSE IF ~meets_minimum_requirements(airport, aircraft) THEN no
        ELSE IF emergency_type = no_emergency THEN yes
        ELSE IF emergency_type.name = "medical" /\ "medical" \notin airport.facilities
             THEN no
        ELSE IF emergency_type.name = "fire" /\ "fire_response" \notin airport.facilities
             THEN no
        ELSE IF emergency_type.name = "mechanical"
                /\ "maintenance" \notin airport.facilities
             THEN no
        ELSE IF is_limited_facility(airport) \/ airport.is_decoy
             THEN [suitable |-> verify_emergency_landing_capability(
                                    airport, emergency_type, rejected),
                   verify_called |-> TRUE,
                   random_drawn |-> airport.is_decoy]
        ELSE yes

is_suitable_for_emergency(airport, aircraft, rejected) ==
    suitability(airport, aircraft, rejected).suitable

(***************************************************************************)
(* emergency_landing_dfs, one iteration of the for loop of the innermost   *)
(* call per step.  A frame holds the locals of one call: its aircraft      *)
(* snapshot, its depth, its sorted_airports and the index i of the airport *)
(* the loop is at.                                                         *)
(***************************************************************************)
\* A snapshot that moves and keeps the fuel it had.
new_aircraft_without_burn(aircraft, airport) ==
    [id               |-> aircraft.id,
     position         |-> (aircraft.position + airport.position) \div 2,
     fuel_remaining   |-> aircraft.fuel_remaining,
     aircraft_type    |-> aircraft.aircraft_type,
     emergency_status |-> aircraft.emergency_status]

\* Lines 195-212: the snapshot after the hypothetical move half way to airport.
new_aircraft(aircraft, airport) ==
    LET new_position == (aircraft.position + airport.position) \div 2
        distance_traveled == calculate_distance(aircraft.position, new_position)
    IN  [id               |-> aircraft.id,
         position         |-> new_position,
         fuel_remaining   |-> aircraft.fuel_remaining - distance_traveled,
         aircraft_type    |-> aircraft.aircraft_type,
         emergency_status |-> aircraft.emergency_status]

\* Lines 175-183 of a call that passes the depth test.
dfs_frame(aircraft, depth) ==
    [aircraft        |-> aircraft,
     depth           |-> depth,
     sorted_airports |-> sort_by_distance(aircraft.position, dfs_airports),
     i               |-> 1]

\* A depth test that lets the depth max_depth through.
depth_limit_reached_above(depth) == dfs_max_depth # no_max_depth /\ depth > dfs_max_depth

\* Line 179.
depth_limit_reached(depth) == dfs_max_depth # no_max_depth /\ depth >= dfs_max_depth

dfs_top == dfs_stack[Len(dfs_stack)]
dfs_candidate == dfs_top.sorted_airports[dfs_top.i]

\* The innermost call goes on with the next airport of its loop.
dfs_continue == [dfs_stack EXCEPT ![Len(dfs_stack)].i = @ + 1]

\* The innermost call has an airport to look at that is not yet visited.
dfs_at_unvisited ==
    /\ dfs_pc = "running"
    /\ dfs_top.i <= Len(dfs_top.sorted_airports)
    /\ dfs_candidate.id \notin dfs_visited

\* Lines 187-190: the airport is marked visited and tested.
dfs_test(rejected) ==
    LET s == suitability(dfs_candidate, dfs_top.aircraft, rejected)
    IN  [airport       |-> dfs_candidate,
         aircraft      |-> dfs_top.aircraft,
         depth         |-> dfs_top.depth,
         suitable      |-> is_suitable_for_emergency(dfs_candidate, dfs_top.aircraft,
                                                     rejected),
         verify_called |-> s.verify_called,
         random_drawn  |-> s.random_drawn,
         rejected      |-> s.random_drawn /\ rejected]

\* A test that is logged and leaves the visited set as it is.
dfs_mark_and_test_unmarked(rejected) ==
    /\ dfs_visited' = dfs_visited
    /\ dfs_tests' = Append(dfs_tests, dfs_test(rejected))

dfs_mark_and_test(rejected) ==
    /\ dfs_visited' = dfs_visited \cup {dfs_candidate.id}
    /\ dfs_tests' = Append(dfs_tests, dfs_test(rejected))

dfs_return(result) ==
    /\ dfs_pc' = "returned"
    /\ dfs_result' = result
    /\ dfs_stack' = <<>>

\* The caller's call: lines 175-183 at depth 0.
emergency_landing_dfs ==
    /\ dfs_pc = "idle"
    /\ dfs_visited' = {}
    /\ dfs_tests' = <<>>
    /\ IF depth_limit_reached(0)
       THEN dfs_return(no_airport)
       ELSE /\ dfs_pc' = "running"
            /\ dfs_stack' = <<dfs_frame(dfs_aircraft, 0)>>
            /\ dfs_result' = no_airport
    /\ UNCHANGED <<net_vars, n_calls, hazard_calls, query_vars, dls_vars, bfs_vars,
                   dfs_aircraft, dfs_airports, dfs_max_depth>>

\* Line 186: the airport is already visited.
dfs_skip_visited ==
    /\ dfs_pc = "running"
    /\ dfs_top.i <= Len(dfs_top.sorted_airports)
    /\ dfs_candidate.id \in dfs_visited
    /\ dfs_stack' = dfs_continue
    /\ UNCHANGED <<net_vars, n_calls, hazard_calls, query_vars, dls_vars, bfs_vars,
                   dfs_pc, dfs_aircraft, dfs_airports,
                   dfs_max_depth, dfs_visited, dfs_result, dfs_tests>>

\* Lines 187-191, and 219-220 in every enclosing call: the airport is suitable
\* and is returned through all the levels.
dfs_found ==
    /\ dfs_at_unvisited
    /\ \E rejected \in BOOLEAN :
        /\ dfs_test(rejected).suitable
        /\ dfs_mark_and_test(rejected)
    /\ dfs_return(dfs_candidate)
    /\ UNCHANGED <<net_vars, n_calls, hazard_calls, query_vars, dls_vars, bfs_vars,
                   dfs_aircraft, dfs_airports, dfs_max_depth>>

\* The recursive call made without the fuel test of lines 215-216.
dfs_prune_recursing ==
    /\ dfs_at_unvisited
    /\ \E rejected \in BOOLEAN :
        /\ ~dfs_test(rejected).suitable
        /\ dfs_mark_and_test(rejected)
    /\ new_aircraft(dfs_top.aircraft, dfs_candidate).fuel_remaining <= 0
    /\ dfs_stack' = Append(dfs_stack,
                           dfs_frame(new_aircraft(dfs_top.aircraft, dfs_candidate),
                                     dfs_top.depth + 1))
    /\ UNCHANGED <<net_vars, n_calls, hazard_calls, query_vars, dls_vars, bfs_vars,
                   dfs_pc, dfs_aircraft, dfs_airports,
                   dfs_max_depth, dfs_result>>

\* Lines 187-216: the airport is unsuitable and the move would leave no fuel.
dfs_prune ==
    /\ dfs_at_unvisited
    /\ \E rejected \in BOOLEAN :
        /\ ~dfs_test(rejected).suitable
        /\ dfs_mark_and_test(rejected)
    /\ new_aircraft(dfs_top.aircraft, dfs_candidate).fuel_remaining <= 0
    /\ dfs_stack' = dfs_continue
    /\ UNCHANGED <<net_vars, n_calls, hazard_calls, query_vars, dls_vars, bfs_vars,
                   dfs_pc, dfs_aircraft, dfs_airports,
                   dfs_max_depth, dfs_result>>

\* Lines 187-218 and 179-180: the airport is unsuitable, the recursive call is
\* made at the depth limit and returns None at once.
dfs_depth_limited ==
    /\ dfs_at_unvisited
    /\ \E rejected \in BOOLEAN :
        /\ ~dfs_test(rejected).suitable
        /\ dfs_mark_and_test(rejected)
    /\ new_aircraft(dfs_top.aircraft, dfs_candidate).fuel_remaining > 0
    /\ depth_limit_reached(dfs_top.depth + 1)
    /\ dfs_stack' = dfs_continue
    /\ UNCHANGED <<net_vars, n_calls, hazard_calls, query_vars, dls_vars, bfs_vars,
                   dfs_pc, dfs_aircraft, dfs_airports,
                   dfs_max_depth, dfs_result>>

\* A recursive call made on an airport that is tested and not marked visited.
dfs_recurse_unmarked ==
    /\ dfs_at_unvisited
    /\ \E rejected \in BOOLEAN :
        /\ ~dfs_test(rejected).suitable
        /\ dfs_mark_and_test_unmarked(rejected)
    /\ new_aircraft(dfs_top.aircraft, dfs_candidate).fuel_remaining > 0
    /\ ~depth_limit_reached(dfs_top.depth + 1)
    /\ dfs_stack' = Append(dfs_stack,
                           dfs_frame(new_aircraft(dfs_top.aircraft, dfs_candidate),
                                     dfs_top.depth + 1))
    /\ UNCHANGED <<net_vars, n_calls, hazard_calls, query_vars, dls_vars, bfs_vars,
                   dfs_pc, dfs_aircraft, dfs_airports,
                   dfs_max_depth, dfs_result>>

\* Lines 187-218 and 175-183: the airport is unsuitable and the recursive call
\* starts its own loop.
dfs_recurse ==
    /\ dfs_at_unvisited
    /\ \E rejected \in BOOLEAN :
        /\ ~dfs_test(rejected).suitable
        /\ dfs_mark_and_test(rejected)
    /\ new_aircraft(dfs_top.aircraft, dfs_candidate).fuel_remaining > 0
    /\ ~depth_limit_reached(dfs_top.depth + 1)
    /\ dfs_stack' = Append(dfs_stack,
                           dfs_frame(new_aircraft(dfs_top.aircraft, dfs_candidate),
                                     dfs_top.depth + 1))
    /\ UNCHANGED <<net_vars, n_calls, hazard_calls, query_vars, dls_vars, bfs_vars,
                   dfs_pc, dfs_aircraft, dfs_airports,
                   dfs_max_depth, dfs_result>>

\* Line 222: the loop of the innermost call is over; it returns None, and its
\* caller (lines 219-220) goes on with its next airport.
dfs_exhausted ==
    /\ dfs_pc = "running"
    /\ dfs_top.i > Len(dfs_top.sorted_airports)
    /\ IF Len(dfs_stack) = 1
       THEN dfs_return(no_airport)
       ELSE LET outer == SubSeq(dfs_stack, 1, Len(dfs_stack) - 1)
            IN  /\ dfs_stack' = [outer EXCEPT ![Len(outer)].i = @ + 1]
                /\ UNCHANGED <<dfs_pc, dfs_result>>
    /\ UNCHANGED <<net_vars, n_calls, hazard_calls, query_vars, dls_vars, bfs_vars,
                   dfs_aircraft, dfs_airports,
                   dfs_max_depth, dfs_visited, dfs_tests>>

(***************************************************************************)
(* src/dls.py: FlightPathPlanner.                                          *)
(*                                                                         *)
(* A position is a pair (lat, lon) counted in quarter degrees.  All        *)
(* positions of the model lie on one meridian, where the haversine         *)
(* distance of calculate_distance is proportional to the difference of     *)
(* the latitudes; lengths are counted in minutes of arc, so a quarter      *)
(* degree of latitude is 15 units long, and a speed is a number of these   *)
(* units per hour.  A delay factor is counted in ten-thousandths and a     *)
(* time in 1 / (10000 * speed_scale) hours, which keeps both exact for     *)
(* the altitudes, congestion levels and speeds of the model.               *)
(***************************************************************************)
\* The length of a quarter degree of latitude.
arc_per_unit == 15
\* The number of ten-thousandths in the delay factor 1.0.
factor_one == 10000
\* Every speed of the model divides speed_scale.
speed_scale == 200

\* FlightPathPlanner.add_airport: self.airports[airport.code] = airport; a dict
\* keeps the keys in insertion order and a replaced key keeps its place.
RECURSIVE planner_add_airport(_, _)
planner_add_airport(list, airport) ==
    IF list = <<>> THEN <<airport>>
    ELSE IF Head(list).code = airport.code THEN <<airport>> \o Tail(list)
    ELSE <<Head(list)>> \o planner_add_airport(Tail(list), airport)

\* FlightPathPlanner.calculate_distance, for two points of one meridian.
planner_calculate_distance(lat1, lon1, lat2, lon2) ==
    arc_per_unit * (IF lat1 >= lat2 THEN lat1 - lat2 ELSE lat2 - lat1)

\* sorted(nearby, key=lambda x: x[1]) is stable.
RECURSIVE insert_nearby(_, _)
insert_nearby(x, s) ==
    IF s = <<>> THEN <<x>>
    ELSE IF x.dist < Head(s).dist THEN <<x>> \o s
    ELSE <<Head(s)>> \o insert_nearby(x, Tail(s))

RECURSIVE sort_nearby(_)
sort_nearby(s) ==
    IF s = <<>> THEN <<>>
    ELSE insert_nearby(s[Len(s)], sort_nearby(SubSeq(s, 1, Len(s) - 1)))

\* The loop of lines 124-127.
RECURSIVE nearby_within(_, _, _, _)
nearby_within(list, lat, lon, max_distance) ==
    IF list = <<>> THEN <<>>
    ELSE LET airport == Head(list)
             distance == planner_calculate_distance(lat, lon, airport.lat, airport.lon)
             rest == nearby_within(Tail(list), lat, lon, max_distance)
         IN  IF distance <= max_distance
             THEN <<[airport |-> airport, dist |-> distance]>> \o rest
             ELSE rest

get_nearby_airports(lat, lon, max_distance) ==
    sort_nearby(nearby_within(planner_airports, lat, lon, max_distance))

\* A runway requirement that asks the least of every aircraft type.
min_runway_length_always_small(aircraft_type) == 3000

\* Lines 181-186.
min_runway_length(aircraft_type) ==
    IF aircraft_type = "small" THEN 3000
    ELSE IF aircraft_type = "medium" THEN 5000
    ELSE 8000

\* Line 189.
max_range(aircraft_speed) == aircraft_speed * 3

\* Lines 191-192.
RECURSIVE with_runway(_, _)
with_runway(nearby, min_length) ==
    IF nearby = <<>> THEN <<>>
    ELSE IF Head(nearby).airport.runway_length >= min_length
         THEN <<Head(nearby)>> \o with_runway(Tail(nearby), min_length)
    ELSE with_runway(Tail(nearby), min_length)

min2(a, b) == IF a <= b THEN a ELSE b
max2(a, b) == IF a >= b THEN a ELSE b

in_area(area, point) ==
    /\ min2(area[1][1], area[2][1]) <= point[1]
    /\ point[1] <= max2(area[1][1], area[2][1])
    /\ min2(area[1][2], area[2][2]) <= point[2]
    /\ point[2] <= max2(area[1][2], area[2][2])

\* A test that looks at the start point only.
affects_path_start_only(weather, start_point, end_point, altitude) ==
    IF altitude < weather.min_altitude \/ altitude > weather.max_altitude
    THEN FALSE
    ELSE in_area(weather.affected_area, start_point)

\* WeatherCondition.affects_path
affects_path(weather, start_point, end_point, altitude) ==
    IF altitude < weather.min_altitude \/ altitude > weather.max_altitude
    THEN FALSE
    ELSE IF in_area(weather.affected_area, start_point) THEN TRUE
    ELSE IF in_area(weather.affected_area, end_point) THEN TRUE
    ELSE FALSE

\* FlightPathPlanner.check_path_feasibility: the first element of the pair.
check_path_feasibility(start_lat, start_lon, end_lat, end_lon, altitude) ==
    ~ \E i \in 1..Len(weather_conditions) :
          /\ affects_path(weather_conditions[i], <<start_lat, start_lon>>,
                          <<end_lat, end_lon>>, altitude)
          /\ weather_conditions[i].severity > 7

\* AirTrafficZone.get_delay_factor, in ten-thousandths.
get_delay_factor(zone, altitude) ==
    IF altitude < zone.min_altitude \/ altitude > zone.max_altitude
    THEN factor_one
    ELSE LET altitude_factor == 1500 - (altitude * 1000) \div zone.max_altitude
         IN  factor_one + zone.congestion_level * altitude_factor

\* A loop that multiplies the delay factors.
RECURSIVE worst_delay_product(_, _, _)
worst_delay_product(zones, altitude, total_delay_factor) ==
    IF zones = <<>> THEN total_delay_factor
    ELSE worst_delay_product(Tail(zones), altitude,
             (total_delay_factor * get_delay_factor(Head(zones), altitude))
                 \div factor_one)

\* The loop of lines 158-160.
RECURSIVE worst_delay(_, _, _)
worst_delay(zones, altitude, total_delay_factor) ==
    IF zones = <<>> THEN total_delay_factor
    ELSE worst_delay(Tail(zones), altitude,
                     max2(total_delay_factor, get_delay_factor(Head(zones), altitude)))

\* FlightPathPlanner.estimate_travel_time
estimate_travel_time(distance, aircraft_speed, altitude) ==
    LET base_time == distance * (speed_scale \div aircraft_speed)
    IN  base_time * worst_delay(traffic_zones, altitude, factor_one)

\* The state of the network and of the searches, which the planner's own
\* operations do not write.
planner_frame == <<net_vars, n_calls, hazard_calls, bfs_vars, dfs_vars,
                   neighbors_call, neighbors_returned,
                   planner_airports, dls_pc, dls_call, suitable_airports, dls_stack,
                   viable_paths, dls_result, dls_rng, dls_draws, dls_entered>>

\* FlightPathPlanner.add_weather_condition, before any direct query.
add_weather_condition(weather) ==
    /\ ~feasibility_call.made /\ ~travel_time_call.made
    /\ Len(weather_conditions) < MaxWeatherConditions
    /\ weather_conditions' = Append(weather_conditions, weather)
    /\ UNCHANGED <<planner_frame, traffic_zones, planner_query_vars>>

\* FlightPathPlanner.add_traffic_zone, before any direct query.
add_traffic_zone(zone) ==
    /\ ~feasibility_call.made /\ ~travel_time_call.made
    /\ Len(traffic_zones) < MaxTrafficZones
    /\ traffic_zones' = Append(traffic_zones, zone)
    /\ UNCHANGED <<planner_frame, weather_conditions, planner_query_vars>>

\* A direct call of check_path_feasibility.
check_path_feasibility_call(start_lat, start_lon, end_lat, end_lon, altitude) ==
    /\ ~feasibility_call.made /\ ~travel_time_call.made
    /\ feasibility_call' = [start |-> <<start_lat, start_lon>>,
                            end |-> <<end_lat, end_lon>>,
                            altitude |-> altitude, made |-> TRUE]
    /\ feasibility_returned' = check_path_feasibility(start_lat, start_lon,
                                                      end_lat, end_lon, altitude)
    /\ UNCHANGED <<planner_frame, weather_conditions, traffic_zones,
                   travel_time_call, travel_time_returned>>

\* A direct call of estimate_travel_time.
estimate_travel_time_call(distance, aircraft_speed, altitude) ==
    /\ ~feasibility_call.made /\ ~travel_time_call.made
    /\ travel_time_call' = [distance |-> distance, aircraft_speed |-> aircraft_speed,
                            altitude |-> altitude, made |-> TRUE]
    /\ travel_time_returned' = estimate_travel_time(distance, aircraft_speed, altitude)
    /\ UNCHANGED <<planner_frame, weather_conditions, traffic_zones,
                   feasibility_call, feasibility_returned>>

(***************************************************************************)
(* depth_limited_search, one dls_recursive step per action, with the       *)
(* recursion kept as an explicit stack of frames.                          *)
(*                                                                         *)
(* random.random() is a generator with a state: a draw reads the state and *)
(* advances it.  The generator of the model has 16 states; a latitude      *)
(* offset, in [-0.5, 0.5) degrees, is one of -2, -1, 0, 1 quarter degrees, *)
(* and the longitude offset drawn with it is 0, which keeps the waypoint   *)
(* on the meridian.                                                        *)
(***************************************************************************)
\* range(5) of line 233.
waypoint_fanout == 5
\* waypoint_distance < 100 of line 246.
waypoint_limit == 100
\* The number of states of the generator.
rng_states == 16

rng_next(s) == (s * 5 + 3) % rng_states

\* (random.random() * 2 - 1) * 0.5, in quarter degrees.
random_offset(s) == (s \div 4) - 2

\* The loop of lines 233-248 from the generator state rng, n draws to go:
\* the feasible waypoints in the order drawn, and the generator state left.
RECURSIVE sample_waypoints(_, _, _, _, _)
sample_waypoints(curr_lat, curr_lon, rng, n, call) ==
    IF n = 0 THEN [waypoints |-> <<>>, rng |-> rng]
    ELSE LET new_lat == curr_lat + random_offset(rng)
             new_lon == curr_lon
             waypoint_distance ==
                 planner_calculate_distance(curr_lat, curr_lon, new_lat, new_lon)
             feasible == check_path_feasibility(curr_lat, curr_lon, new_lat, new_lon,
                                                call.altitude_constraint)
             segment_time == estimate_travel_time(waypoint_distance,
                                 call.aircraft_speed, call.altitude_constraint)
             rest == sample_waypoints(curr_lat, curr_lon, rng_next(rng), n - 1, call)
         IN  [waypoints |->
                 IF feasible /\ waypoint_distance < waypoint_limit
                 THEN <<[lat |-> new_lat, lon |-> new_lon,
                         dist |-> waypoint_distance, time |-> segment_time]>>
                      \o rest.waypoints
                 ELSE rest.waypoints,
              rng |-> rest.rng]

\* A loop that records the last leg's distance and time as the totals.
RECURSIVE direct_paths_last_leg(_, _, _)
direct_paths_last_leg(suitable, frame, call) ==
    IF suitable = <<>> THEN <<>>
    ELSE LET airport == Head(suitable).airport
             direct_distance == planner_calculate_distance(frame.curr_lat, frame.curr_lon,
                                                           airport.lat, airport.lon)
             feasible == check_path_feasibility(frame.curr_lat, frame.curr_lon,
                                 airport.lat, airport.lon, call.altitude_constraint)
             segment_time == estimate_travel_time(direct_distance,
                                 call.aircraft_speed, call.altitude_constraint)
             found == [path |-> Append(frame.path,
                                       <<airport.code, airport.lat, airport.lon,
                                         direct_distance, segment_time>>),
                       total_distance |-> direct_distance,
                       total_time |-> segment_time,
                       airport |-> airport]
             rest == direct_paths_last_leg(Tail(suitable), frame, call)
         IN  IF feasible THEN <<found>> \o rest ELSE rest

\* The loop of lines 205-226: the paths appended to viable_paths by one call
\* of dls_recursive, in the order of suitable_airports.
RECURSIVE direct_paths(_, _, _)
direct_paths(suitable, frame, call) ==
    IF suitable = <<>> THEN <<>>
    ELSE LET airport == Head(suitable).airport
             direct_distance == planner_calculate_distance(frame.curr_lat, frame.curr_lon,
                                                           airport.lat, airport.lon)
             feasible == check_path_feasibility(frame.curr_lat, frame.curr_lon,
                                 airport.lat, airport.lon, call.altitude_constraint)
             segment_time == estimate_travel_time(direct_distance,
                                 call.aircraft_speed, call.altitude_constraint)
             found == [path |-> Append(frame.path,
                                       <<airport.code, airport.lat, airport.lon,
                                         direct_distance, segment_time>>),
                       total_distance |-> frame.total_distance + direct_distance,
                       total_time |-> frame.total_time + segment_time,
                       airport |-> airport]
             rest == direct_paths(Tail(suitable), frame, call)
         IN  IF feasible THEN <<found>> \o rest ELSE rest

\* A sort that keeps one path of each total_time.
RECURSIVE insert_by_time_distinct(_, _)
insert_by_time_distinct(x, s) ==
    IF s = <<>> THEN <<x>>
    ELSE IF x.total_time < Head(s).total_time THEN <<x>> \o s
    ELSE IF x.total_time = Head(s).total_time THEN s
    ELSE <<Head(s)>> \o insert_by_time_distinct(x, Tail(s))

\* viable_paths.sort(key=lambda x: x["total_time"]) is stable.
RECURSIVE insert_by_time(_, _)
insert_by_time(x, s) ==
    IF s = <<>> THEN <<x>>
    ELSE IF x.total_time < Head(s).total_time THEN <<x>> \o s
    ELSE <<Head(s)>> \o insert_by_time(x, Tail(s))

RECURSIVE sort_by_time(_)
sort_by_time(s) ==
    IF s = <<>> THEN <<>>
    ELSE insert_by_time(s[Len(s)], sort_by_time(SubSeq(s, 1, Len(s) - 1)))

\* A call of dls_recursive that is given the depth of its caller.
dls_frame_same_depth(lat, lon, alt, path, depth, total_distance, total_time) ==
    [curr_lat |-> lat, curr_lon |-> lon, curr_alt |-> alt, path |-> path,
     depth |-> IF depth > 0 THEN depth - 1 ELSE depth,
     total_distance |-> total_distance,
     total_time |-> total_time, phase |-> "entered", waypoints |-> <<>>, i |-> 1]

\* A call of dls_recursive that has not run yet.
dls_frame(lat, lon, alt, path, depth, total_distance, total_time) ==
    [curr_lat |-> lat, curr_lon |-> lon, curr_alt |-> alt, path |-> path,
     depth |-> depth, total_distance |-> total_distance,
     total_time |-> total_time, phase |-> "entered", waypoints |-> <<>>, i |-> 1]

dls_top == dls_stack[Len(dls_stack)]

\* A call of dls_recursive returns; the return of the outermost call is
\* followed by the sort and the return of lines 263-265.
dls_leave(paths) ==
    /\ dls_stack' = SubSeq(dls_stack, 1, Len(dls_stack) - 1)
    /\ IF Len(dls_stack) = 1
       THEN /\ dls_pc' = "returned"
            /\ dls_result' = sort_by_time(paths)
       ELSE UNCHANGED <<dls_pc, dls_result>>

\* Lines 180-197 and the call of line 260.
depth_limited_search(start_lat, start_lon, start_alt, aircraft_type, aircraft_speed, max_depth, altitude_constraint) ==
    /\ dls_pc = "idle"
    /\ LET nearby_airports == get_nearby_airports(start_lat, start_lon,
                                                  max_range(aircraft_speed))
           suitable == with_runway(nearby_airports, min_runway_length(aircraft_type))
       IN  /\ suitable_airports' = suitable
           /\ IF suitable = <<>>
              THEN /\ dls_pc' = "returned"
                   /\ dls_stack' = <<>>
                   /\ dls_entered' = 0
              ELSE /\ dls_pc' = "running"
                   /\ dls_stack' = <<dls_frame(start_lat, start_lon, start_alt,
                                               <<>>, 0, 0, 0)>>
                   /\ dls_entered' = 1
    /\ dls_call' = [start |-> <<start_lat, start_lon>>, start_alt |-> start_alt,
                    aircraft_type |-> aircraft_type,
                    aircraft_speed |-> aircraft_speed, max_depth |-> max_depth,
                    altitude_constraint |-> altitude_constraint]
    /\ viable_paths' = <<>>
    /\ dls_result' = <<>>
    /\ UNCHANGED <<planner_vars, dls_rng, dls_draws>>
    /\ UNCHANGED <<net_vars, n_calls, hazard_calls, query_vars, bfs_vars, dfs_vars>>

\* Lines 201-248 of one call of dls_recursive: the depth test, the paths to
\* the suitable airports, and the sampling of the waypoints.
dls_recursive ==
    /\ dls_pc = "running"
    /\ dls_top.phase = "entered"
    /\ IF dls_top.depth > dls_call.max_depth
       THEN /\ dls_leave(viable_paths)
            /\ UNCHANGED <<viable_paths, dls_rng, dls_draws>>
       ELSE LET found == direct_paths(suitable_airports, dls_top, dls_call)
                sampled == IF dls_top.depth < dls_call.max_depth
                           THEN sample_waypoints(dls_top.curr_lat, dls_top.curr_lon,
                                                 dls_rng, waypoint_fanout, dls_call)
                           ELSE [waypoints |-> <<>>, rng |-> dls_rng]
            IN  /\ viable_paths' = viable_paths \o found
                /\ dls_rng' = sampled.rng
                /\ dls_draws' = IF dls_top.depth < dls_call.max_depth
                                THEN dls_draws + waypoint_fanout
                                ELSE dls_draws
                /\ dls_stack' = [dls_stack EXCEPT
                                    ![Len(dls_stack)].phase = "exploring",
                                    ![Len(dls_stack)].waypoints = sampled.waypoints]
                /\ UNCHANGED <<dls_pc, dls_result>>
    /\ UNCHANGED <<planner_vars, dls_call, suitable_airports, dls_entered>>
    /\ UNCHANGED <<net_vars, n_calls, hazard_calls, query_vars, bfs_vars, dfs_vars>>

\* Lines 251-257: the recursive call for the next waypoint.
dls_recurse ==
    /\ dls_pc = "running"
    /\ dls_top.phase = "exploring"
    /\ dls_top.i <= Len(dls_top.waypoints)
    /\ LET wp == dls_top.waypoints[dls_top.i]
           callee == dls_frame(wp.lat, wp.lon, dls_call.altitude_constraint,
                               Append(dls_top.path,
                                      <<"WP", wp.lat, wp.lon, wp.dist, wp.time>>),
                               dls_top.depth + 1,
                               dls_top.total_distance + wp.dist,
                               dls_top.total_time + wp.time)
       IN  dls_stack' = Append([dls_stack EXCEPT ![Len(dls_stack)].i = @ + 1], callee)
    /\ dls_entered' = dls_entered + 1
    /\ UNCHANGED <<planner_vars, dls_pc, dls_call, suitable_airports, viable_paths,
                   dls_result, dls_rng, dls_draws>>
    /\ UNCHANGED <<net_vars, n_calls, hazard_calls, query_vars, bfs_vars, dfs_vars>>

\* The loop of line 251 is over, or was not entered: dls_recursive returns.
dls_return ==
    /\ dls_pc = "running"
    /\ dls_top.phase = "exploring"
    /\ dls_top.i > Len(dls_top.waypoints)
    /\ dls_leave(viable_paths)
    /\ UNCHANGED <<planner_vars, dls_call, suitable_airports, viable_paths,
                   dls_rng, dls_draws, dls_entered>>
    /\ UNCHANGED <<net_vars, n_calls, hazard_calls, query_vars, bfs_vars, dfs_vars>>

(***************************************************************************)
(* Spec: the mutating operations of AirportNetwork in any order.           *)
(***************************************************************************)
bfs_idle ==
    /\ bfs_pc = "idle"
    /\ bfs_call = [start |-> "", goal |-> "", avoid_congestion |-> TRUE,
                   prioritize_fuel |-> FALSE]
    /\ bfs_queue = <<>>
    /\ bfs_visited = {}
    /\ bfs_result = no_path

\* No emergency search is under way.
dfs_idle ==
    /\ dfs_pc = "idle"
    /\ dfs_aircraft = [id |-> "", position |-> 0, fuel_remaining |-> 0,
                       aircraft_type |-> "", emergency_status |-> no_emergency]
    /\ dfs_airports = <<>>
    /\ dfs_max_depth = no_max_depth
    /\ dfs_stack = <<>>
    /\ dfs_visited = {}
    /\ dfs_result = no_airport
    /\ dfs_tests = <<>>

\* get_neighbors, check_path_feasibility and estimate_travel_time have not
\* been called directly.
query_idle ==
    /\ neighbors_call = [airport_code |-> "", avoid_congestion |-> TRUE,
                         prioritize_fuel |-> FALSE, made |-> FALSE]
    /\ neighbors_returned = <<>>
    /\ feasibility_call = [start |-> <<0, 0>>, end |-> <<0, 0>>, altitude |-> 0,
                           made |-> FALSE]
    /\ feasibility_returned = TRUE
    /\ travel_time_call = [distance |-> 0, aircraft_speed |-> 0, altitude |-> 0,
                           made |-> FALSE]
    /\ travel_time_returned = 0

\* FlightPathPlanner.__init__
planner_empty ==
    /\ planner_airports = <<>>
    /\ weather_conditions = <<>>
    /\ traffic_zones = <<>>

\* No depth-limited search is under way.
search_idle ==
    /\ dls_pc = "idle"
    /\ dls_call = [start |-> <<0, 0>>, start_alt |-> 0, aircraft_type |-> "",
                   aircraft_speed |-> 0, max_depth |-> 0, altitude_constraint |-> 0]
    /\ suitable_airports = <<>>
    /\ dls_stack = <<>>
    /\ viable_paths = <<>>
    /\ dls_result = <<>>
    /\ dls_rng = 0
    /\ dls_draws = 0
    /\ dls_entered = 0

\* AirportNetwork.__init__
network_empty ==
    /\ airports = <<>>
    /\ routes = <<>>
    /\ congested_routes = {}
    /\ weather_affected_routes = {}

Init ==
    /\ network_empty
    /\ n_calls = 0
    /\ hazard_calls = <<>>
    /\ bfs_idle
    /\ dfs_idle
    /\ query_idle
    /\ planner_empty
    /\ search_idle

Next ==
    \/ \E code \in Codes, name \in AirportNames : add_airport(code, name)
    \/ \E origin \in Codes, destination \in Codes, kind \in RouteKinds :
           add_route(origin, destination, kind[1], kind[2])
    \/ \E origin \in Codes, destination \in Codes, is_congested \in BOOLEAN :
           update_congestion(origin, destination, is_congested)
    \/ \E origin \in Codes, destination \in Codes, is_affected \in BOOLEAN :
           update_weather(origin, destination, is_affected)

Spec == Init /\ [][Next]_vars

(***************************************************************************)
(* SpecBFS: searches on networks built the way create_sample_airport_-     *)
(* network builds one: add_airport calls, then add_route calls, then       *)
(* update_congestion and update_weather calls.                             *)
(***************************************************************************)
\* The add_route calls a network is built from, each with the congestion
\* level drawn for it: (origin, destination, distance, fuel_efficiency, level).
RoutePool ==
    << <<"A", "B", 100, 9, 0>>,
       <<"A", "D", 100, 8, 1>>,
       <<"B", "C", 100, 9, 2>>,
       <<"D", "E", 50, 10, 3>>,
       <<"E", "C", 50, 10, 0>>,
       <<"A", "C", 250, 5, 1>>,
       <<"B", "B", 30, 5, 2>>,
       <<"A", "B", 80, 10, 3>> >>

\* The sets of registered airports.
RegisteredSets == {{"A", "B", "C"}, {"A", "B", "C", "D", "E"}, {"A", "C", "D", "E"}}

\* The pairs update_congestion and update_weather are called with.
CongestedPool == {<<"B", "C">>, <<"A", "C">>}
WeatherPool == {<<"C", "B">>, <<"A", "B">>}

\* The arguments of the searches.
BfsStarts == {"A", "C"}
BfsGoals == {"C", "A", "B", "Z"}

RECURSIVE airports_built(_)
airports_built(reg) ==
    IF reg = {} THEN <<>>
    ELSE LET code == CHOOSE c \in reg : TRUE
         IN  airports_add_airport(airports_built(reg \ {code}), code, "n1")

RECURSIVE routes_registered(_)
routes_registered(reg) ==
    IF reg = {} THEN <<>>
    ELSE LET code == CHOOSE c \in reg : TRUE
         IN  routes_add_airport(routes_registered(reg \ {code}), code)

\* The route table after add_route for the pool entries 1..i chosen in S.
RECURSIVE routes_built(_, _, _)
routes_built(reg, S, i) ==
    IF i = 0 THEN routes_registered(reg)
    ELSE LET before == routes_built(reg, S, i - 1)
             r == RoutePool[i]
         IN  IF i \in S
             THEN routes_add_route(before, r[1], r[2], r[3], r[4], r[5])
             ELSE before

RECURSIVE pairs_built(_)
pairs_built(P) ==
    IF P = {} THEN {}
    ELSE LET p == CHOOSE q \in P : TRUE
         IN  pairs_update(pairs_built(P \ {p}), p[1], p[2], TRUE)

InitBFS ==
    \E reg \in RegisteredSets, S \in SUBSET (1..Len(RoutePool)),
       cs \in SUBSET CongestedPool, ws \in SUBSET WeatherPool :
        /\ Cardinality(S) <= MaxRoutes
        /\ Cardinality(cs) <= MaxHazards
        /\ Cardinality(ws) <= MaxHazards
        /\ airports = airports_built(reg)
        /\ routes = routes_built(reg, S, Len(RoutePool))
        /\ congested_routes = pairs_built(cs)
        /\ weather_affected_routes = pairs_built(ws)
        /\ n_calls = 0
        /\ hazard_calls = <<>>
        /\ bfs_idle
        /\ dfs_idle
        /\ query_idle
        /\ planner_empty
        /\ search_idle

NextBFS ==
    \/ \E start \in BfsStarts, goal \in BfsGoals,
          avoid_congestion \in BOOLEAN, prioritize_fuel \in BOOLEAN :
           bfs_shortest_path(start, goal, avoid_congestion, prioritize_fuel)
    \/ bfs_goal_reached
    \/ bfs_expand
    \/ bfs_exhausted

SpecBFS == InitBFS /\ [][NextBFS]_vars

\* SpecBFSFair: searches on the networks over A, B and C built from up to
\* MaxLoopRoutes of the routes below, which give parallel routes (1 and 8), a
\* self-loop (7) and, every route being walked both ways, cycles; a search
\* that was called runs its loop until it returns, the loop being sequential
\* code with nothing to wait for.
LoopRoutes == {1, 3, 6, 7, 8}

InitBFSFair ==
    \E S \in SUBSET LoopRoutes,
       cs \in SUBSET CongestedPool, ws \in SUBSET WeatherPool :
        /\ Cardinality(S) <= MaxLoopRoutes
        /\ Cardinality(cs) <= MaxHazards
        /\ Cardinality(ws) <= MaxHazards
        /\ airports = airports_built({"A", "B", "C"})
        /\ routes = routes_built({"A", "B", "C"}, S, Len(RoutePool))
        /\ congested_routes = pairs_built(cs)
        /\ weather_affected_routes = pairs_built(ws)
        /\ n_calls = 0
        /\ hazard_calls = <<>>
        /\ bfs_idle
        /\ dfs_idle
        /\ query_idle
        /\ planner_empty
        /\ search_idle

bfs_loop_step ==
    \/ bfs_goal_reached
    \/ bfs_expand
    \/ bfs_exhausted

SpecBFSFair == InitBFSFair /\ [][NextBFS]_vars /\ WF_vars(bfs_loop_step)

(***************************************************************************)
(* SpecToggle: update_congestion and update_weather calls on a built       *)
(* network whose hazard flags are in any prior state.                      *)
(***************************************************************************)
\* The pool entries the networks are built from.
ToggleRoutes == {1, 3, 8}
\* The pairs the calls are made with.
TogglePairs == {<<"B", "C">>, <<"C", "B">>, <<"A", "B">>}

InitToggle ==
    \E S \in SUBSET ToggleRoutes,
       cs \in SUBSET CongestedPool, ws \in SUBSET WeatherPool :
        /\ Cardinality(cs) <= MaxHazards
        /\ Cardinality(ws) <= MaxHazards
        /\ airports = airports_built({"A", "B", "C"})
        /\ routes = routes_built({"A", "B", "C"}, S, Len(RoutePool))
        /\ congested_routes = pairs_built(cs)
        /\ weather_affected_routes = pairs_built(ws)
        /\ n_calls = 0
        /\ hazard_calls = <<>>
        /\ bfs_idle
        /\ dfs_idle
        /\ query_idle
        /\ planner_empty
        /\ search_idle

NextToggle ==
    \/ \E p \in TogglePairs, is_congested \in BOOLEAN :
           update_congestion(p[1], p[2], is_congested)
    \/ \E p \in TogglePairs, is_affected \in BOOLEAN :
           update_weather(p[1], p[2], is_affected)

SpecToggle == InitToggle /\ [][NextToggle]_vars

(***************************************************************************)
(* SpecNeighbors: one direct get_neighbors call on a built network.        *)
(***************************************************************************)
\* The add_route calls a network is built from, each with the congestion
\* level drawn for it; three of A's routes agree in distance and efficiency.
NeighborPool ==
    << <<"A", "B", 100, 9, 0>>,
       <<"A", "C", 100, 9, 1>>,
       <<"A", "D", 80, 10, 2>>,
       <<"A", "E", 100, 9, 3>>,
       <<"B", "A", 250, 5, 0>>,
       <<"A", "A", 100, 9, 1>> >>

NeighborRegistered == {{"A", "B", "C", "D", "E"}, {"A"}}
NeighborCongested == {<<"A", "C">>, <<"A", "A">>}
NeighborWeather == {<<"D", "A">>, <<"A", "C">>}
\* The identifiers get_neighbors is called with; Z is never added.
NeighborCodes == {"A", "B", "Z"}

\* The route table after add_route for the pool entries 1..i chosen in S.
RECURSIVE neighbor_routes_built(_, _, _)
neighbor_routes_built(reg, S, i) ==
    IF i = 0 THEN routes_registered(reg)
    ELSE LET before == neighbor_routes_built(reg, S, i - 1)
             r == NeighborPool[i]
         IN  IF i \in S
             THEN routes_add_route(before, r[1], r[2], r[3], r[4], r[5])
             ELSE before

InitNeighbors ==
    \E reg \in NeighborRegistered, S \in SUBSET (1..Len(NeighborPool)),
       cs \in SUBSET NeighborCongested, ws \in SUBSET NeighborWeather :
        /\ airports = airports_built(reg)
        /\ routes = neighbor_routes_built(reg, S, Len(NeighborPool))
        /\ congested_routes = pairs_built(cs)
        /\ weather_affected_routes = pairs_built(ws)
        /\ n_calls = 0
        /\ hazard_calls = <<>>
        /\ bfs_idle
        /\ dfs_idle
        /\ query_idle
        /\ planner_empty
        /\ search_idle

NextNeighbors ==
    \/ \E airport_code \in NeighborCodes,
          avoid_congestion \in BOOLEAN, prioritize_fuel \in BOOLEAN :
           get_neighbors_call(airport_code, avoid_congestion, prioritize_fuel)

SpecNeighbors == InitNeighbors /\ [][NextNeighbors]_vars

(***************************************************************************)
(* SpecDFS: one emergency search, on an airports list and an aircraft      *)
(* drawn from the inputs below.                                            *)
(***************************************************************************)
\* The airports a list is drawn from, in list order; the aircraft is at 0.
AirportPool ==
    << [id |-> "NAG", position |-> km(20), runway_length |-> 3200,
        facilities |-> {"medical", "fire_response", "refueling"},
        weather_condition |-> "clear", is_decoy |-> FALSE],
       [id |-> "DEL", position |-> km(-60), runway_length |-> 4430,
        facilities |-> {"medical", "maintenance", "fire_response", "refueling"},
        weather_condition |-> "clear", is_decoy |-> FALSE],
       [id |-> "JLR", position |-> km(40), runway_length |-> 2380,
        facilities |-> {"fire_response", "refueling"},
        weather_condition |-> "clear", is_decoy |-> FALSE],
       [id |-> "IDR", position |-> km(-30), runway_length |-> 2750,
        facilities |-> {"medical", "maintenance", "fire_response", "refueling"},
        weather_condition |-> "rain", is_decoy |-> TRUE],
       [id |-> "BOM", position |-> km(10), runway_length |-> 3660,
        facilities |-> {"medical", "maintenance", "fire_response", "refueling"},
        weather_condition |-> "hurricane", is_decoy |-> FALSE],
       [id |-> "DIU", position |-> km(-10), runway_length |-> 900,
        facilities |-> {"medical", "maintenance", "fire_response", "refueling"},
        weather_condition |-> "clear", is_decoy |-> FALSE],
       [id |-> "IXR", position |-> km(30), runway_length |-> 2000,
        facilities |-> {"maintenance", "fire_response", "refueling"},
        weather_condition |-> "fog", is_decoy |-> FALSE] >>

\* The list holding the pool's airports of the indices in S, in pool order.
RECURSIVE airports_list(_, _)
airports_list(S, i) ==
    IF i = 0 THEN <<>>
    ELSE IF i \in S THEN Append(airports_list(S, i - 1), AirportPool[i])
    ELSE airports_list(S, i - 1)

FuelLevels == {km(50), km(64), km(200)}
AircraftTypes == {"small", "medium", "Large", "jumbo", "cargo"}
EmergencyTypes ==
    { [name |-> "medical",    required_facilities |-> {"medical"}],
      [name |-> "fire",       required_facilities |-> {"fire_response"}],
      [name |-> "mechanical", required_facilities |-> {"maintenance"}],
      [name |-> "hydraulic",  required_facilities |-> {"maintenance"}] }

InitDFS ==
    \E S \in SUBSET (1..Len(AirportPool)), fuel \in FuelLevels,
       type \in AircraftTypes, emergency \in EmergencyTypes \cup {no_emergency},
       max_depth \in (0..MaxDepthArg) \cup {no_max_depth} :
        /\ Cardinality(S) <= MaxAirports
        /\ dfs_pc = "idle"
        /\ dfs_aircraft = [id |-> "AI302", position |-> 0, fuel_remaining |-> fuel,
                           aircraft_type |-> type, emergency_status |-> emergency]
        /\ dfs_airports = airports_list(S, Len(AirportPool))
        /\ dfs_max_depth = max_depth
        /\ dfs_stack = <<>>
        /\ dfs_visited = {}
        /\ dfs_result = no_airport
        /\ dfs_tests = <<>>
        /\ network_empty
        /\ n_calls = 0
        /\ hazard_calls = <<>>
        /\ bfs_idle
        /\ query_idle
        /\ planner_empty
        /\ search_idle

NextDFS ==
    \/ emergency_landing_dfs
    \/ dfs_skip_visited
    \/ dfs_found
    \/ dfs_prune
    \/ dfs_depth_limited
    \/ dfs_recurse
    \/ dfs_exhausted

SpecDFS == InitDFS /\ [][NextDFS]_vars

\* SpecDFSFair: a search that was called runs until it returns, the loop and
\* the recursion being sequential code with nothing to wait for.
dfs_step ==
    \/ dfs_skip_visited
    \/ dfs_found
    \/ dfs_prune
    \/ dfs_depth_limited
    \/ dfs_recurse
    \/ dfs_exhausted

SpecDFSFair == InitDFS /\ [][NextDFS]_vars /\ WF_vars(dfs_step)

(***************************************************************************)
(* Properties of the breadth-first router.                                 *)
(***************************************************************************)
\* The graph a search walks: the destinations get_neighbors returns.
successors(n, avoid_congestion, prioritize_fuel) ==
    LET nb == get_neighbors(n, avoid_congestion, prioritize_fuel)
    IN  {nb[i][1] : i \in 1..Len(nb)}

\* The nodes at most k edges from start.
RECURSIVE within(_, _, _, _)
within(start, k, avoid_congestion, prioritize_fuel) ==
    IF k = 0 THEN {start}
    ELSE LET R == within(start, k - 1, avoid_congestion, prioritize_fuel)
         IN  R \cup UNION {successors(n, avoid_congestion, prioritize_fuel) : n \in R}

node_count == Cardinality(DOMAIN airports \cup DOMAIN routes)

reachable(start, goal, avoid_congestion, prioritize_fuel) ==
    goal \in within(start, node_count, avoid_congestion, prioritize_fuel)

\* The least number of edges of a path from start to goal (goal reachable).
min_hops(start, goal, avoid_congestion, prioritize_fuel) ==
    CHOOSE k \in 0..node_count :
        /\ goal \in within(start, k, avoid_congestion, prioritize_fuel)
        /\ \A j \in 0..(k - 1) :
               goal \notin within(start, j, avoid_congestion, prioritize_fuel)

bfs_returned_path == bfs_pc = "returned" /\ bfs_result.path # None

\* C1: a returned path has the minimum number of edges over all paths from
\* start to goal in the graph of the edges get_neighbors returns under the
\* same options; the distances of the edges play no role.
C1_HopOptimal ==
    bfs_returned_path =>
        Len(bfs_result.path) - 1 =
            min_hops(bfs_call.start, bfs_call.goal,
                     bfs_call.avoid_congestion, bfs_call.prioritize_fuel)

\* C1 witness: the one-edge path A-C of distance 250 is returned although the
\* two-edge path A-B-C of distance 200 passes the same filter.
C1_Witness ==
    /\ bfs_returned_path
    /\ bfs_result.path = <<"A", "C">>
    /\ bfs_result.total_distance = 250
    /\ \E i \in 1..Len(routes["A"]) : routes["A"][i][1] = "B" /\ routes["A"][i][2] = 100
    /\ "B" \in successors("A", bfs_call.avoid_congestion, bfs_call.prioritize_fuel)
    /\ "C" \in successors("B", bfs_call.avoid_congestion, bfs_call.prioritize_fuel)

\* C2: the no-path result is returned exactly when start or goal is not a
\* registered airport or goal cannot be reached through edges that pass the
\* filter; otherwise a path from start to goal is returned.
C2_NoPathExactly ==
    bfs_pc = "returned" =>
        LET unknown == \/ bfs_call.start \notin DOMAIN airports
                       \/ bfs_call.goal \notin DOMAIN airports
            cut_off == ~reachable(bfs_call.start, bfs_call.goal,
                                  bfs_call.avoid_congestion, bfs_call.prioritize_fuel)
        IN  IF unknown \/ cut_off
            THEN bfs_result = no_path
            ELSE /\ bfs_result.path # None
                 /\ Head(bfs_result.path) = bfs_call.start
                 /\ bfs_result.path[Len(bfs_result.path)] = bfs_call.goal
                 /\ bfs_result.total_distance # inf
                 /\ bfs_result.total_fuel_consumption # inf

\* C2 witness: both airports are registered, the goal is reachable when hazards
\* are not avoided, and the search that avoids them returns the no-path result.
C2_Witness ==
    /\ bfs_pc = "returned"
    /\ bfs_result = no_path
    /\ bfs_call.start \in DOMAIN airports
    /\ bfs_call.goal \in DOMAIN airports
    /\ bfs_call.avoid_congestion
    /\ reachable(bfs_call.start, bfs_call.goal, FALSE, bfs_call.prioritize_fuel)

\* The network of the scenario: airports A, B, C, routes A-B and B-C of
\* distance 100 and efficiency 9, B-C congested.
scenario_network ==
    /\ DOMAIN airports = {"A", "B", "C"}
    /\ DOMAIN routes = {"A", "B", "C"}
    /\ Len(routes["A"]) = 1 /\ SubSeq(routes["A"][1], 1, 3) = <<"B", 100, 9>>
    /\ Len(routes["B"]) = 2 /\ SubSeq(routes["B"][1], 1, 3) = <<"A", 100, 9>>
                            /\ SubSeq(routes["B"][2], 1, 3) = <<"C", 100, 9>>
    /\ Len(routes["C"]) = 1 /\ SubSeq(routes["C"][1], 1, 3) = <<"B", 100, 9>>
    /\ congested_routes = {<<"B", "C">>, <<"C", "B">>}
    /\ weather_affected_routes = {}

\* C3: in the scenario network, the search from A to C returns the no-path
\* result when it avoids congestion, and the path A, B, C of distance 200 when
\* it does not.
C3_Scenario ==
    (scenario_network /\ bfs_pc = "returned"
     /\ bfs_call.start = "A" /\ bfs_call.goal = "C") =>
        IF bfs_call.avoid_congestion
        THEN bfs_result = no_path
        ELSE /\ bfs_result.path = <<"A", "B", "C">>
             /\ bfs_result.total_distance = 200

\* C3 witness: the search of the scenario that avoids congestion has returned.
C3_Witness ==
    /\ scenario_network
    /\ bfs_pc = "returned"
    /\ bfs_call.start = "A" /\ bfs_call.goal = "C"
    /\ bfs_call.avoid_congestion
    /\ bfs_result = no_path

(***************************************************************************)
(* Properties of the emergency landing search.                             *)
(***************************************************************************)
dfs_returned_airport == dfs_pc = "returned" /\ dfs_result # no_airport

\* The test that made the search return its airport.
dfs_last_test == dfs_tests[Len(dfs_tests)]

\* C4: a returned airport is no farther from the position of the snapshot it
\* was tested on than that snapshot's remaining fuel, at any recursion depth.
C4_FuelSafe ==
    dfs_returned_airport =>
        /\ dfs_last_test.airport = dfs_result
        /\ dfs_last_test.suitable
        /\ calculate_distance(dfs_last_test.aircraft.position, dfs_result.position)
               <= dfs_last_test.aircraft.fuel_remaining

\* C4 witness: an airport is returned from a snapshot below the top level,
\* whose fuel is less than the fuel the caller's aircraft has.
C4_Witness ==
    /\ dfs_returned_airport
    /\ dfs_last_test.depth >= 1
    /\ dfs_last_test.aircraft.fuel_remaining < dfs_aircraft.fuel_remaining
    /\ dfs_last_test.aircraft.position # dfs_aircraft.position

\* The requirements as the specification states them: the minimum runway of
\* the size class, the disqualifying weather, the facilities an emergency names.
class_minimum(aircraft_type) ==
    CASE aircraft_type = "small" -> 1000
      [] aircraft_type = "medium" -> 2000
      [] aircraft_type \in {"large", "Large"} -> 3000
      [] aircraft_type \in {"jumbo", "JUMBO"} -> 3500
      [] OTHER -> 2000

disqualifying_weather == {"severe_storm", "hurricane", "tornado"}

holds_required_facilities(airport, aircraft) ==
    aircraft.emergency_status # no_emergency =>
        aircraft.emergency_status.required_facilities \subseteq airport.facilities

qualifying(airport, aircraft) ==
    /\ airport.runway_length >= class_minimum(aircraft.aircraft_type)
    /\ airport.weather_condition \notin disqualifying_weather
    /\ holds_required_facilities(airport, aircraft)

every_qualifying_out_of_range ==
    \A i \in 1..Len(dfs_airports) :
        qualifying(dfs_airports[i], dfs_aircraft) =>
            calculate_distance(dfs_aircraft.position, dfs_airports[i].position)
                > dfs_aircraft.fuel_remaining

\* C5: when every airport that meets the runway, weather and facility
\* requirements is farther from the initial position than the initial fuel,
\* the search returns none found, for every max_depth.
C5_NoneWhenOutOfRange ==
    (dfs_pc = "returned" /\ every_qualifying_out_of_range) => dfs_result = no_airport

\* C5, for the emergencies whose facility is_suitable_for_emergency tests by
\* name, and for no emergency: there the search returns none found.
C5_NamedEmergencies ==
    (/\ dfs_pc = "returned"
     /\ every_qualifying_out_of_range
     /\ dfs_aircraft.emergency_status.name \in {"None", "medical", "fire", "mechanical"})
        => dfs_result = no_airport

\* An airport that passes the suitability test on the caller's aircraft with
\* no random number drawn.
initially_suitable(airport) ==
    /\ \A rejected \in BOOLEAN : suitability(airport, dfs_aircraft, rejected).suitable
    /\ ~suitability(airport, dfs_aircraft, FALSE).random_drawn

\* C6: if some airport of the list passes the suitability test for the
\* aircraft's initial state and max_depth is at least 1 or not given, the
\* search returns an airport.
C6_FindsInitiallySuitable ==
    (/\ dfs_pc = "returned"
     /\ dfs_max_depth = no_max_depth \/ dfs_max_depth >= 1
     /\ \E i \in 1..Len(dfs_airports) : initially_suitable(dfs_airports[i]))
        => dfs_result # no_airport

\* C7: with a declared emergency, a returned airport holds every facility the
\* emergency names as required.
C7_RequiredFacilities ==
    (dfs_returned_airport /\ dfs_aircraft.emergency_status # no_emergency) =>
        dfs_aircraft.emergency_status.required_facilities \subseteq dfs_result.facilities

\* A decoy, or an airport with two or fewer of the four major facilities.
needs_verification(airport) ==
    \/ airport.is_decoy
    \/ Cardinality(airport.facilities
                   \cap {"medical", "maintenance", "fire_response", "refueling"}) <= 2

\* C8, as claimed: a decoy or limited-facility candidate is accepted only
\* after the verification step has run and not rejected it, with or without a
\* declared emergency.
C8_VerifiedAlways ==
    \A k \in 1..Len(dfs_tests) :
        LET t == dfs_tests[k]
        IN  /\ (t.suitable /\ needs_verification(t.airport)) =>
                   (t.verify_called /\ ~t.rejected)
            /\ t.rejected => ~t.suitable

\* C8, amended: for an aircraft with a declared emergency, a decoy or
\* limited-facility candidate is accepted only after the verification step has
\* run and not rejected it; the step draws a random outcome for a decoy and for
\* no other airport, and a rejecting outcome makes the candidate unsuitable.
\* For an aircraft with no declared emergency the step does not run.
C8_VerifiedWhenEmergency ==
    \A k \in 1..Len(dfs_tests) :
        LET t == dfs_tests[k]
        IN  /\ (t.suitable /\ needs_verification(t.airport)) =>
                   IF t.aircraft.emergency_status # no_emergency
                   THEN /\ t.verify_called
                        /\ t.random_drawn = t.airport.is_decoy
                        /\ ~t.rejected
                   ELSE ~t.verify_called
            /\ t.rejected => (t.random_drawn /\ ~t.suitable)

\* C8 witness: a decoy was accepted for an aircraft with a declared emergency,
\* after a random outcome that did not reject it.
C8_Witness ==
    \E k \in 1..Len(dfs_tests) :
        /\ dfs_tests[k].airport.is_decoy
        /\ dfs_tests[k].aircraft.emergency_status # no_emergency
        /\ dfs_tests[k].suitable
        /\ dfs_tests[k].random_drawn

\* C9: a returned airport has a runway of at least the minimum of the
\* aircraft's size class and a weather label outside the disqualifying set.
C9_BaselineMet ==
    dfs_returned_airport =>
        /\ dfs_result.runway_length >= class_minimum(dfs_aircraft.aircraft_type)
        /\ dfs_result.weather_condition \notin disqualifying_weather

\* C9 witness: an airport whose runway is exactly the minimum is returned after
\* an airport in range was passed over for its weather.
C9_Witness ==
    /\ dfs_returned_airport
    /\ dfs_result.runway_length = class_minimum(dfs_aircraft.aircraft_type)
    /\ \E k \in 1..Len(dfs_tests) :
           /\ dfs_tests[k].airport.weather_condition \in disqualifying_weather
           /\ can_reach_airport(dfs_tests[k].aircraft, dfs_tests[k].airport)
           /\ ~dfs_tests[k].suitable

(***************************************************************************)
(* Properties of the route table.                                          *)
(***************************************************************************)
\* The number of entries of list equal to e.
occurrences(list, e) == Cardinality({i \in 1..Len(list) : list[i] = e})

\* C10: for every entry (b, distance, fuel_efficiency, congestion) of a's
\* adjacency list, b's list holds the entry (a, distance, fuel_efficiency,
\* congestion), as many times as a's list holds the former.
C10_RoutesSymmetric ==
    \A a \in DOMAIN routes :
        \A i \in 1..Len(routes[a]) :
            LET e == routes[a][i]
                back == <<a, e[2], e[3], e[4]>>
            IN  /\ e[1] \in DOMAIN routes
                /\ occurrences(routes[e[1]], back) = occurrences(routes[a], e)
                /\ occurrences(routes[a], e) >= 1

\* C10 witness: after add_route, add_route and add_airport, two airports are
\* joined by two routes of the same attributes and one of them is registered.
C10_Witness ==
    \E a \in DOMAIN routes, b \in DOMAIN routes :
        /\ a # b
        /\ a \in DOMAIN airports
        /\ Len(routes[a]) = 2
        /\ routes[a][1] = routes[a][2]
        /\ routes[a][1][1] = b
        /\ n_calls = 3

(***************************************************************************)
(* Properties of the hazard sets (Spec, SpecToggle).                       *)
(***************************************************************************)
symmetric(pairs) == \A p \in pairs : <<p[2], p[1]>> \in pairs

hazard_call(op, origin, destination, flag) ==
    [op |-> op, args |-> <<origin, destination, flag>>]

\* C11: after any sequence of update_congestion and update_weather calls,
\* whatever their arguments (the pair named in either order, pairs with no
\* route), the congested set and the weather-affected set are each symmetric:
\* (a, b) is in the set iff (b, a) is.
C11_HazardSetsSymmetric ==
    /\ symmetric(congested_routes)
    /\ symmetric(weather_affected_routes)

\* C11 witness: three calls on a pair with no route, the last one naming the
\* pair in the opposite order to the call that set it.
C11_Witness ==
    /\ hazard_calls = << hazard_call("update_congestion", "A", "B", TRUE),
                  hazard_call("update_weather", "B", "A", TRUE),
                  hazard_call("update_congestion", "B", "A", FALSE) >>
    /\ routes = <<>>
    /\ congested_routes = {}
    /\ weather_affected_routes = {<<"A", "B">>, <<"B", "A">>}

\* The destinations of a list of adjacency entries.
destinations(list) == {list[i][1] : i \in 1..Len(list)}

has_route(a, b) == b \in destinations(routes_get(routes, a))

hazard_ops == {"update_congestion", "update_weather"}

\* The set the other operation maintains.
other_hazard_set(op) ==
    IF op = "update_congestion" THEN weather_affected_routes ELSE congested_routes

\* The last call turned the flag of op on for (a, b).
turned_on(op, a, b) ==
    /\ Len(hazard_calls) >= 1
    /\ hazard_calls[Len(hazard_calls)] = hazard_call(op, a, b, TRUE)

\* The last two calls turned the flag of op on for (a, b) and off again.
turned_on_and_off(op, a, b) ==
    /\ Len(hazard_calls) >= 2
    /\ hazard_calls[Len(hazard_calls) - 1] = hazard_call(op, a, b, TRUE)
    /\ hazard_calls[Len(hazard_calls)] = hazard_call(op, a, b, FALSE)

\* C12 as stated: for every route a-b and every prior state of the two flags,
\* after a flag is turned on for (a, b) get_neighbors(a, avoid_congestion=True)
\* has no entry for b, and after that same flag is turned off again b is
\* present in it.
C12_ToggleRoundTrip ==
    \A p \in TogglePairs, op \in hazard_ops, prioritize_fuel \in BOOLEAN :
        has_route(p[1], p[2]) =>
            /\ turned_on(op, p[1], p[2]) =>
                   p[2] \notin destinations(get_neighbors(p[1], TRUE, prioritize_fuel))
            /\ turned_on_and_off(op, p[1], p[2]) =>
                   p[2] \in destinations(get_neighbors(p[1], TRUE, prioritize_fuel))

\* C12, amended: after a flag is turned on for (a, b), b is absent from
\* get_neighbors(a, avoid_congestion=True); after that same flag is turned off
\* again, b is present exactly when the other flag is not set for (a, b).
C12_ToggleRoundTripOtherFlagClear ==
    \A p \in TogglePairs, op \in hazard_ops, prioritize_fuel \in BOOLEAN :
        has_route(p[1], p[2]) =>
            /\ turned_on(op, p[1], p[2]) =>
                   p[2] \notin destinations(get_neighbors(p[1], TRUE, prioritize_fuel))
            /\ turned_on_and_off(op, p[1], p[2]) =>
                   (p[2] \in destinations(get_neighbors(p[1], TRUE, prioritize_fuel))
                    <=> <<p[1], p[2]>> \notin other_hazard_set(op))

\* C12 witness: the weather flag of the route B-C was set and has been cleared
\* through the reversed pair; congestion is then turned on and off for (B, C),
\* and C is back among the neighbours of B.
C12_Witness ==
    /\ hazard_calls = << hazard_call("update_weather", "C", "B", FALSE),
                  hazard_call("update_congestion", "B", "C", TRUE),
                  hazard_call("update_congestion", "B", "C", FALSE) >>
    /\ has_route("B", "C")
    /\ "C" \in destinations(get_neighbors("B", TRUE, FALSE))
    /\ "C" \in destinations(get_neighbors("B", TRUE, TRUE))

(***************************************************************************)
(* Properties of get_neighbors (SpecNeighbors).                            *)
(***************************************************************************)
adjacency(n) == routes_get(routes, n)

hazardous(n, dest) ==
    \/ <<n, dest>> \in congested_routes
    \/ <<n, dest>> \in weather_affected_routes

\* The positions of n's adjacency list whose entries are to be returned.
kept(n, avoid_congestion) ==
    {i \in 1..Len(adjacency(n)) :
        ~(avoid_congestion /\ hazardous(n, adjacency(n)[i][1]))}

\* The entry at position i is to be returned before the entry at position j.
comes_before(n, prioritize_fuel, i, j) ==
    LET x == adjacency(n)[i]
        y == adjacency(n)[j]
    IN  IF prioritize_fuel
        THEN \/ x[3] > y[3]
             \/ x[3] = y[3] /\ x[2] < y[2]
             \/ x[3] = y[3] /\ x[2] = y[2] /\ i < j
        ELSE i < j

\* The place in the returned list of the entry at position i.
place(n, avoid_congestion, prioritize_fuel, i) ==
    1 + Cardinality({j \in kept(n, avoid_congestion) :
                        comes_before(n, prioritize_fuel, j, i)})

\* C13: get_neighbors returns exactly the adjacency entries of n whose pair
\* (n, destination) is in neither hazard set when avoid_congestion is true,
\* and all of them when it is false; with prioritize_fuel they are ordered by
\* descending fuel efficiency, then ascending distance, entries equal on both
\* keeping insertion order; without it they keep insertion order.
C13_NeighborsFilteredAndOrdered ==
    neighbors_call.made =>
        LET n == neighbors_call.airport_code
            avoid == neighbors_call.avoid_congestion
            prio == neighbors_call.prioritize_fuel
        IN  /\ Len(neighbors_returned) = Cardinality(kept(n, avoid))
            /\ \A i \in kept(n, avoid) :
                   neighbors_returned[place(n, avoid, prio, i)] = adjacency(n)[i]

\* C13 witness: A is asked for with both options; the route to C is flagged
\* and left out, the route to D comes first, and the routes to B and E, equal
\* in efficiency and distance, follow in insertion order.
C13_Witness ==
    /\ neighbors_call = [airport_code |-> "A", avoid_congestion |-> TRUE,
                         prioritize_fuel |-> TRUE, made |-> TRUE]
    /\ adjacency("A") = << <<"B", 100, 9, 0>>, <<"C", 100, 9, 1>>,
                           <<"D", 80, 10, 2>>, <<"E", 100, 9, 3>> >>
    /\ <<"A", "C">> \in congested_routes
    /\ weather_affected_routes = {}
    /\ neighbors_returned = << <<"D", 80, 10, 2>>, <<"B", 100, 9, 0>>,
                               <<"E", 100, 9, 3>> >>

\* The state a get_neighbors call does not write.
query_frame == <<airports, routes, congested_routes, weather_affected_routes,
                 n_calls, hazard_calls, bfs_vars, dfs_vars, dls_vars,
                 planner_query_vars>>

\* C14: get_neighbors called with an identifier that has no adjacency entry
\* returns an empty list for every setting of its options, creates no
\* adjacency entry and changes no other state.
C14_UnknownNodeEmpty ==
    [][(/\ ~neighbors_call.made
        /\ neighbors_call'.made
        /\ neighbors_call'.airport_code \notin DOMAIN routes)
       => (/\ neighbors_returned' = <<>>
           /\ neighbors_call'.airport_code \notin DOMAIN routes'
           /\ UNCHANGED query_frame)]_vars

\* C14 witness: Z, which was never added, is asked for with both options on a
\* network that has routes and flagged pairs.
C14_Witness ==
    /\ neighbors_call = [airport_code |-> "Z", avoid_congestion |-> TRUE,
                         prioritize_fuel |-> TRUE, made |-> TRUE]
    /\ "Z" \notin DOMAIN routes
    /\ Len(adjacency("A")) >= 2
    /\ congested_routes # {}
    /\ neighbors_returned = <<>>

(***************************************************************************)
(* SpecDLS: one depth-limited search on a planner built the way            *)
(* create_indian_airport_simulation builds one: add_airport calls, then    *)
(* add_weather_condition calls, then add_traffic_zone calls.               *)
(***************************************************************************)
\* The airports added, in this order; the searches start at latitude 0.
PlannerAirportPool ==
    << [code |-> "AMD", lat |-> 2,  lon |-> 0, runway_length |-> 10499],
       [code |-> "IDR", lat |-> -8, lon |-> 0, runway_length |-> 8000],
       [code |-> "VNS", lat |-> -3, lon |-> 0, runway_length |-> 3000],
       [code |-> "JAI", lat |-> 40, lon |-> 0, runway_length |-> 9000],
       [code |-> "AMD", lat |-> -2, lon |-> 0, runway_length |-> 4999] >>

\* The weather conditions a planner may hold.
WeatherConditionPool ==
    { [severity |-> 8, affected_area |-> << <<1, -1>>, <<3, 1>> >>,
       min_altitude |-> 0, max_altitude |-> 20000],
      [severity |-> 7, affected_area |-> << <<-7, 1>>, <<-9, -1>> >>,
       min_altitude |-> 0, max_altitude |-> 30000],
      [severity |-> 9, affected_area |-> << <<-2, 1>>, <<-1, -1>> >>,
       min_altitude |-> 8000, max_altitude |-> 30000],
      [severity |-> 9, affected_area |-> << <<-1, 2>>, <<1, 5>> >>,
       min_altitude |-> 0, max_altitude |-> 45000] }

\* The lists of traffic zones a planner may hold.
TrafficZoneLists ==
    { <<>>,
      << [name |-> "Mumbai TMA", congestion_level |-> 4,
          min_altitude |-> 0, max_altitude |-> 8000],
         [name |-> "Delhi TMA", congestion_level |-> 9,
          min_altitude |-> 0, max_altitude |-> 16000],
         [name |-> "Bengaluru TMA", congestion_level |-> 7,
          min_altitude |-> 0, max_altitude |-> 16000] >> }

\* The arguments of the searches.
SearchAircraftTypes == {"small", "medium", "large"}
SearchSpeeds == {100, 200}
SearchCeilings == {8000, 24000}
\* The states the random generator is left in by earlier use.
Seeds == {0, 9}

\* The airports table after add_airport for the pool entries 1..i chosen in S.
RECURSIVE planner_airports_built(_, _)
planner_airports_built(S, i) ==
    IF i = 0 THEN <<>>
    ELSE LET before == planner_airports_built(S, i - 1)
         IN  IF i \in S THEN planner_add_airport(before, PlannerAirportPool[i])
             ELSE before

InitDLS ==
    \E S \in SUBSET (1..Len(PlannerAirportPool)),
       ws \in {<<>>} \cup {<<w>> : w \in WeatherConditionPool},
       zs \in TrafficZoneLists,
       seed \in Seeds :
        /\ Cardinality(S) <= MaxPlannerAirports
        /\ planner_airports = planner_airports_built(S, Len(PlannerAirportPool))
        /\ weather_conditions = ws
        /\ traffic_zones = zs
        /\ dls_pc = "idle"
        /\ dls_call = [start |-> <<0, 0>>, start_alt |-> 0, aircraft_type |-> "",
                       aircraft_speed |-> 0, max_depth |-> 0,
                       altitude_constraint |-> 0]
        /\ suitable_airports = <<>>
        /\ dls_stack = <<>>
        /\ viable_paths = <<>>
        /\ dls_result = <<>>
        /\ dls_rng = seed
        /\ dls_draws = 0
        /\ dls_entered = 0
        /\ network_empty
        /\ n_calls = 0
        /\ hazard_calls = <<>>
        /\ bfs_idle
        /\ dfs_idle
        /\ query_idle

NextDLS ==
    \/ \E aircraft_type \in SearchAircraftTypes, aircraft_speed \in SearchSpeeds,
          max_depth \in 0..MaxSearchDepth, altitude_constraint \in SearchCeilings :
           depth_limited_search(0, 0, 20000, aircraft_type, aircraft_speed,
                                max_depth, altitude_constraint)
    \/ dls_recursive
    \/ dls_recurse
    \/ dls_return

SpecDLS == InitDLS /\ [][NextDLS]_vars

\* SpecDLSFair: searches on the planner whose one airport lies inside a
\* weather condition of severity 9 that covers both ceilings, so that a small
\* aircraft's search runs its whole recursion and records no path; a search
\* that was called runs until it returns, the calls of dls_recursive being
\* sequential code with nothing to wait for.
InitDLSFair ==
    /\ InitDLS
    /\ planner_airports = planner_airports_built({5}, Len(PlannerAirportPool))
    /\ \E w \in WeatherConditionPool :
           /\ weather_conditions = <<w>>
           /\ w.severity = 9
           /\ in_area(w.affected_area, <<planner_airports[1].lat, planner_airports[1].lon>>)

dls_step ==
    \/ dls_recursive
    \/ dls_recurse
    \/ dls_return

SpecDLSFair == InitDLSFair /\ [][NextDLS]_vars /\ WF_vars(dls_step)

(***************************************************************************)
(* SpecPlanner: a new planner, conditions and zones registered one by one, *)
(* then one direct query.                                                  *)
(***************************************************************************)
\* The traffic zones a planner may be given.
TrafficZonePool ==
    UNION {{zs[i] : i \in 1..Len(zs)} : zs \in TrafficZoneLists}

\* The end points of the segments queried: inside, outside, on the edge and
\* on either side of the affected areas.
SegmentPoints ==
    {<<0, 0>>, <<2, 0>>, <<4, 0>>, <<3, 1>>, <<-8, 0>>, <<-2, 0>>, <<0, 3>>}
\* Altitudes below, at the ends of, and above the bands.
QueryAltitudes == {0, 7999, 8000, 16000, 20000, 24000}
\* Leg lengths in arc-minutes.
QueryDistances == {0, 30, 120}

InitPlanner == Init

NextPlanner ==
    \/ \E weather \in WeatherConditionPool : add_weather_condition(weather)
    \/ \E zone \in TrafficZonePool : add_traffic_zone(zone)
    \/ \E start \in SegmentPoints, end \in SegmentPoints,
          altitude \in QueryAltitudes :
           check_path_feasibility_call(start[1], start[2], end[1], end[2], altitude)
    \/ \E distance \in QueryDistances, aircraft_speed \in SearchSpeeds,
          altitude \in QueryAltitudes :
           estimate_travel_time_call(distance, aircraft_speed, altitude)

SpecPlanner == InitPlanner /\ [][NextPlanner]_vars

(***************************************************************************)
(* Properties of the depth-limited search (SpecDLS).                       *)
(***************************************************************************)
\* The minimum runway length of an aircraft class.
planner_class_minimum(aircraft_type) ==
    CASE aircraft_type = "small" -> 3000
      [] aircraft_type = "medium" -> 5000
      [] OTHER -> 8000

\* The distance from the start of the search to an airport.
distance_from_start(airport) ==
    LET d == airport.lat - dls_call.start[1]
    IN  15 * (IF d >= 0 THEN d ELSE -d)

\* The airports in range of the start with a runway long enough.
qualifying_airports ==
    {i \in 1..Len(planner_airports) :
        /\ distance_from_start(planner_airports[i]) <= 3 * dls_call.aircraft_speed
        /\ planner_airports[i].runway_length
               >= planner_class_minimum(dls_call.aircraft_type)}

\* C16: depth_limited_search returns an empty list whenever no airport is both
\* within 3 times the aircraft speed of the start and has a runway at least the
\* minimum of the aircraft class; then no dls_recursive call is made and no
\* waypoint is sampled.
C16_EmptyWhenNoneQualifies ==
    (dls_pc # "idle" /\ qualifying_airports = {}) =>
        /\ dls_pc = "returned"
        /\ dls_result = <<>>
        /\ dls_stack = <<>>
        /\ dls_entered = 0
        /\ dls_draws = 0

\* C16 witness: a medium aircraft of speed 100; one airport is in range with a
\* runway of 4999, the other has a runway of 9000 and lies at 600.
C16_Witness ==
    /\ dls_pc = "returned"
    /\ dls_call.aircraft_type = "medium"
    /\ dls_call.aircraft_speed = 100
    /\ Len(planner_airports) = 2
    /\ \E i \in 1..2 : /\ planner_airports[i].runway_length = 4999
                       /\ distance_from_start(planner_airports[i]) = 30
    /\ \E i \in 1..2 : /\ planner_airports[i].runway_length = 9000
                       /\ distance_from_start(planner_airports[i]) = 600
    /\ dls_result = <<>>
    /\ dls_entered = 0

\* C17: the returned list is in ascending order of total_time, and it holds
\* every path recorded during the recursion as often as it was recorded.
C17_SortedByTime ==
    dls_pc = "returned" =>
        /\ \A i \in 1..(Len(dls_result) - 1) :
               dls_result[i].total_time <= dls_result[i + 1].total_time
        /\ Len(dls_result) = Len(viable_paths)
        /\ \A i \in 1..Len(viable_paths) :
               occurrences(dls_result, viable_paths[i])
                   = occurrences(viable_paths, viable_paths[i])

\* C17 witness: the recursion recorded the paths in another order than that of
\* their times, and recorded one path twice (two waypoints coincide).
C17_Witness ==
    /\ dls_pc = "returned"
    /\ dls_result # viable_paths
    /\ \E i \in 1..Len(viable_paths) :
           /\ occurrences(viable_paths, viable_paths[i]) >= 2
           /\ Len(viable_paths[i].path) >= 2
    /\ \E i \in 1..(Len(dls_result) - 1) :
           dls_result[i].total_time < dls_result[i + 1].total_time

\* 5^n
RECURSIVE fanout_power(_)
fanout_power(n) == IF n = 0 THEN 1 ELSE 5 * fanout_power(n - 1)

\* 1 + 5 + ... + 5^n, the largest number of dls_recursive calls of a search.
RECURSIVE fanout_sum(_)
fanout_sum(n) == IF n = 0 THEN 1 ELSE fanout_power(n) + fanout_sum(n - 1)

\* C18 as stated: the number of paths is at most
\* (number of qualifying airports) x max_depth x 5^max_depth.
C18_PathCountProductBound ==
    dls_pc # "idle" =>
        /\ Len(viable_paths) <= Cardinality(qualifying_airports)
               * dls_call.max_depth * fanout_power(dls_call.max_depth)
        /\ Len(dls_result) <= Cardinality(qualifying_airports)
               * dls_call.max_depth * fanout_power(dls_call.max_depth)

\* C18, amended: the number of paths is at most
\* (number of qualifying airports) x (1 + 5 + ... + 5^max_depth).
C18_PathCountSumBound ==
    dls_pc # "idle" =>
        /\ Len(viable_paths) <= Cardinality(qualifying_airports)
               * fanout_sum(dls_call.max_depth)
        /\ Len(dls_result) <= Cardinality(qualifying_airports)
               * fanout_sum(dls_call.max_depth)

\* C18 witness: with two qualifying airports and max_depth 1 the search returns
\* 12 paths, more than 2 x 1 x 5.
C18_Witness ==
    /\ dls_pc = "returned"
    /\ dls_call.max_depth = 1
    /\ Cardinality(qualifying_airports) = 2
    /\ Len(dls_result) = 12

(***************************************************************************)
(* Properties of bfs_shortest_path, continued (SpecBFS).                   *)
(***************************************************************************)
\* C15: for every registered airport n, bfs_shortest_path(n, n) returns the
\* single-node path [n] with distance 0 and fuel 0, whatever the hazard flags,
\* the options and the edges of n.
C15_PathToSelf ==
    (/\ bfs_pc = "returned"
     /\ bfs_call.start = bfs_call.goal
     /\ bfs_call.start \in DOMAIN airports) =>
        bfs_result = [path |-> <<bfs_call.start>>, total_distance |-> 0,
                      total_fuel_consumption |-> 0]

\* C15 witness: C has edges, every one of them is flagged, and the search from
\* C to C that avoids hazards has returned [C].
C15_Witness ==
    /\ bfs_pc = "returned"
    /\ bfs_call.start = "C"
    /\ bfs_call.goal = "C"
    /\ bfs_call.avoid_congestion
    /\ Len(routes["C"]) >= 2
    /\ \A i \in 1..Len(routes["C"]) :
           \/ <<"C", routes["C"][i][1]>> \in congested_routes
           \/ <<"C", routes["C"][i][1]>> \in weather_affected_routes
    /\ bfs_result.path = <<"C">>

(***************************************************************************)
(* SpecFrame: one activity per behaviour on the state it reads: a mutating *)
(* call, a breadth-first search or a get_neighbors call on a built         *)
(* network, an emergency landing search on an airports list, or a          *)
(* depth-limited search on a planner.                                      *)
(***************************************************************************)
\* The state is that of a network on which nothing has run yet.
network_untouched ==
    /\ n_calls = 0
    /\ bfs_pc = "idle"
    /\ ~neighbors_call.made
    /\ dfs_idle
    /\ planner_empty
    /\ search_idle

\* One mutating call on the network.
frame_mutation ==
    /\ network_untouched
    /\ Next

\* The breadth-first search, on a network no call has been made on.
frame_bfs ==
    /\ n_calls = 0 /\ ~neighbors_call.made
    /\ dfs_idle /\ planner_empty /\ search_idle
    /\ NextBFS

\* A direct get_neighbors call.
frame_neighbors ==
    /\ network_untouched
    /\ NextNeighbors

\* The emergency landing search.
frame_dfs ==
    /\ network_empty /\ n_calls = 0 /\ bfs_idle /\ query_idle
    /\ planner_empty /\ search_idle
    /\ NextDFS

\* The depth-limited search.
frame_dls ==
    /\ network_empty /\ n_calls = 0 /\ bfs_idle /\ query_idle
    /\ dfs_idle
    /\ NextDLS

InitFrame ==
    \/ InitToggle
    \/ InitDFS
    \/ InitDLS

NextFrame ==
    \/ frame_mutation
    \/ frame_bfs
    \/ frame_neighbors
    \/ frame_dfs
    \/ frame_dls

SpecFrame == InitFrame /\ [][NextFrame]_vars

(***************************************************************************)
(* Frame properties (SpecFrame, Spec).                                     *)
(***************************************************************************)
\* What depth_limited_search writes.
dls_search_vars == <<dls_pc, dls_call, suitable_airports, dls_stack, viable_paths,
                     dls_result, dls_rng, dls_draws, dls_entered>>

\* What emergency_landing_dfs writes.
dfs_search_vars == <<dfs_pc, dfs_max_depth, dfs_stack, dfs_visited, dfs_result,
                     dfs_tests>>

\* C19: no search changes the state it reads: a step of bfs_shortest_path or
\* of get_neighbors leaves the airports table, the route table and the two
\* hazard sets unchanged; a step of depth_limited_search leaves the planner's
\* airports, weather conditions and traffic zones unchanged; a step of
\* emergency_landing_dfs leaves the airports list, its records and the
\* caller's aircraft unchanged.  The network state changes only in a step of
\* add_airport, add_route, update_congestion or update_weather.
C19_SearchesLeaveStateUnchanged ==
    [][/\ (bfs_vars' # bfs_vars \/ query_vars' # query_vars) => UNCHANGED net_vars
       /\ dls_search_vars' # dls_search_vars => UNCHANGED planner_vars
       /\ dfs_search_vars' # dfs_search_vars =>
              UNCHANGED <<dfs_airports, dfs_aircraft>>
       /\ net_vars' # net_vars =>
              /\ n_calls' = n_calls + 1
              /\ UNCHANGED <<bfs_vars, query_vars>>]_vars

\* C19 witness: a search that prioritizes fuel has gone through B and returned
\* a path, and B's adjacency list is still in insertion order, which is not
\* the order of the sort.
C19_Witness ==
    /\ bfs_pc = "returned"
    /\ bfs_call.prioritize_fuel
    /\ bfs_result.path = <<"A", "B", "C">>
    /\ routes["B"] # sort_by_fuel(routes["B"])
    /\ congested_routes # {}

\* C20: a step of add_airport(code, name) makes name the record stored under
\* code, whatever was stored there, and leaves the other records alone; a
\* code without an adjacency entry gets an empty one, and an adjacency list
\* that existed, that of code included, is unchanged, as are both hazard sets.
C20_AddAirportEffect ==
    [][\A code \in Codes, name \in AirportNames :
          add_airport(code, name) =>
              /\ DOMAIN airports' = DOMAIN airports \cup {code}
              /\ airports'[code] = name
              /\ \A c \in DOMAIN airports \ {code} : airports'[c] = airports[c]
              /\ DOMAIN routes' = DOMAIN routes \cup {code}
              /\ code \notin DOMAIN routes => routes'[code] = <<>>
              /\ \A c \in DOMAIN routes : routes'[c] = routes[c]
              /\ UNCHANGED <<congested_routes, weather_affected_routes>>]_vars

\* C20 witness: three calls, none of them a hazard update, have left A as the
\* only registered airport, under its second record, with the one route A-B
\* on its adjacency list: add_airport was called twice on A, around or after
\* the add_route that gave A its list.
C20_Witness ==
    /\ n_calls = 3
    /\ hazard_calls = <<>>
    /\ DOMAIN airports = {"A"}
    /\ airports["A"] = "n2"
    /\ DOMAIN routes = {"A", "B"}
    /\ Len(routes["A"]) = 1
    /\ routes["A"][1][1] = "B"

(***************************************************************************)
(* The frontier of bfs_shortest_path (SpecBFSFair).                        *)
(***************************************************************************)
\* The nodes of the frontier.
queue_nodes(q) == {q[i].current : i \in 1..Len(q)}

\* Every frontier entry is of a marked node, no node has two entries, and
\* the frontier has no more entries than the network has nodes.
frontier_marked_once ==
    bfs_pc = "loop" =>
        /\ queue_nodes(bfs_queue) \subseteq bfs_visited
        /\ \A i, j \in 1..Len(bfs_queue) :
               bfs_queue[i].current = bfs_queue[j].current => i = j
        /\ Len(bfs_queue) <= node_count
        /\ bfs_visited \subseteq DOMAIN airports \cup DOMAIN routes

\* An iteration that goes on: the marked set only grows, the nodes enqueued
\* are exactly the nodes marked in this iteration, and the node dequeued is
\* not in the frontier again.
expansion_marks_on_enqueue ==
    (bfs_pc = "loop" /\ bfs_pc' = "loop") =>
        /\ bfs_visited \subseteq bfs_visited'
        /\ queue_nodes(bfs_queue') \ queue_nodes(bfs_queue) = bfs_visited' \ bfs_visited
        /\ Head(bfs_queue).current \notin queue_nodes(bfs_queue')
        /\ Len(bfs_queue') = Len(bfs_queue) - 1
                             + Cardinality(bfs_visited' \ bfs_visited)

\* C21: a node is marked visited at the moment it is enqueued, so each node
\* is enqueued at most once and dequeued at most once in one search, the
\* frontier never holds more entries than there are nodes, and a search that
\* was called returns, on networks with cycles, self-loops and parallel routes
\* too.
C21_MarkedOnEnqueueAndTerminates ==
    /\ []frontier_marked_once
    /\ [][expansion_marks_on_enqueue]_vars
    /\ (bfs_pc = "loop" ~> bfs_pc = "returned")

\* C21 witness: on a network with the self-loop B-B and the cycle A-B-A, the
\* search from A for C, which no route leads to, has expanded A and B once
\* each and returned with no path.
C21_Witness ==
    /\ bfs_pc = "returned"
    /\ bfs_call.start = "A"
    /\ bfs_call.goal = "C"
    /\ ~bfs_call.avoid_congestion
    /\ bfs_result = no_path
    /\ has_route("A", "B")
    /\ has_route("B", "A")
    /\ has_route("B", "B")

(***************************************************************************)
(* The totals of a returned path (SpecBFS).                                *)
(***************************************************************************)
\* The edge the search walks from a to b: the first entry for b in the list
\* get_neighbors returns for a.
edge_traversed(a, b) ==
    LET nb == get_neighbors(a, bfs_call.avoid_congestion, bfs_call.prioritize_fuel)
        at == {i \in 1..Len(nb) : nb[i][1] = b}
    IN  nb[CHOOSE i \in at : \A j \in at : i <= j]

\* The sum of the distances of the edges of the first k steps of path p.
RECURSIVE path_distance(_, _)
path_distance(p, k) ==
    IF k = 0 THEN 0
    ELSE path_distance(p, k - 1) + edge_traversed(p[k], p[k + 1])[2]

\* The sum of distance x (11 - fuel_efficiency) / 10 over the same edges.
RECURSIVE path_fuel(_, _)
path_fuel(p, k) ==
    IF k = 0 THEN 0
    ELSE LET e == edge_traversed(p[k], p[k + 1])
         IN  path_fuel(p, k - 1) + (e[2] * (11 - e[3])) \div 10

\* The distances of the routes of the pool.
pool_distances == {RoutePool[i][3] : i \in 1..Len(RoutePool)}

\* C22: when bfs_shortest_path returns a path, the returned distance is the
\* sum of the distances of the edges walked along it and the returned fuel is
\* the sum over those edges of distance x (11 - fuel_efficiency) / 10; an edge
\* of efficiency 10 costs a tenth of its distance and one of efficiency 1 its
\* whole distance.
C22_TotalsAreSumsOverPath ==
    /\ bfs_returned_path =>
           LET p == bfs_result.path
           IN  /\ \A k \in 1..(Len(p) - 1) :
                      \E i \in 1..Len(routes[p[k]]) : routes[p[k]][i][1] = p[k + 1]
               /\ bfs_result.total_distance = path_distance(p, Len(p) - 1)
               /\ bfs_result.total_fuel_consumption = path_fuel(p, Len(p) - 1)
    /\ \A d \in pool_distances :
           /\ 10 * fuel_used(d, 10) = d
           /\ fuel_used(d, 1) = d

\* C22 witness: with the parallel routes A-B of (100, 9) and (80, 10), the
\* search that prioritizes fuel has walked the second one and then B-C, and
\* returned 180 and 8 + 20.
C22_Witness ==
    /\ bfs_pc = "returned"
    /\ bfs_call.prioritize_fuel
    /\ bfs_result = [path |-> <<"A", "B", "C">>, total_distance |-> 180,
                     total_fuel_consumption |-> 28]

(***************************************************************************)
(* The visited set of emergency_landing_dfs (SpecDFS).                     *)
(***************************************************************************)
\* The identifiers of the airports tested so far.
tested_ids == {dfs_tests[i].airport.id : i \in 1..Len(dfs_tests)}

\* The identifiers of the airports list.
airport_ids == {dfs_airports[i].id : i \in 1..Len(dfs_airports)}

\* No identifier is tested twice, the tested identifiers are the visited
\* ones, and there are no more tests than identifiers.
tested_once ==
    /\ \A i, j \in 1..Len(dfs_tests) :
           dfs_tests[i].airport.id = dfs_tests[j].airport.id => i = j
    /\ tested_ids = dfs_visited
    /\ dfs_visited \subseteq airport_ids
    /\ Len(dfs_tests) <= Cardinality(airport_ids)

\* C23: during one top-level call the visited set is one set for all the
\* recursion levels and only grows; each airport identifier is tested for
\* suitability at most once in the whole search, so the number of tests is at
\* most the number of distinct identifiers.
C23_TestedAtMostOnce ==
    /\ []tested_once
    /\ [][dfs_pc # "idle" => dfs_visited \subseteq dfs_visited']_vars

\* C23 witness: a search over three airports has tested the nearest at depth
\* 0 and the two others at depth 1; back at depth 0 its loop found both of
\* them visited, and the search returned none after three tests.
C23_Witness ==
    /\ dfs_pc = "returned"
    /\ dfs_result = no_airport
    /\ Len(dfs_airports) = 3
    /\ Len(dfs_tests) = 3
    /\ dfs_tests[1].depth = 0
    /\ dfs_tests[2].depth = 1
    /\ dfs_tests[3].depth = 1

\* C24: when max_depth is given, no candidate is tested at a recursion depth
\* greater than or equal to max_depth and no call runs its loop at such a
\* depth; a returned airport is the one tested last, after fewer than
\* max_depth moves; with max_depth = 0 the search tests nothing and returns
\* none, for every aircraft and airports list.
C24_DepthBelowMaxDepth ==
    dfs_max_depth # no_max_depth =>
        /\ \A i \in 1..Len(dfs_tests) : dfs_tests[i].depth < dfs_max_depth
        /\ \A i \in 1..Len(dfs_stack) :
               /\ dfs_stack[i].depth = i - 1
               /\ dfs_stack[i].depth < dfs_max_depth
        /\ dfs_returned_airport =>
               /\ dfs_last_test.airport = dfs_result
               /\ dfs_last_test.depth < dfs_max_depth
        /\ (dfs_max_depth = 0 /\ dfs_pc = "returned") =>
               (dfs_result = no_airport /\ dfs_tests = <<>>)

\* C24 witness: with max_depth = 2 an airport was found at depth 1, after one
\* move, the nearest airport having been found unsuitable at depth 0.
C24_Witness ==
    /\ dfs_max_depth = 2
    /\ dfs_returned_airport
    /\ Len(dfs_tests) >= 2
    /\ dfs_last_test.depth = 1
    /\ dfs_last_test.aircraft.position # dfs_aircraft.position

\* The fuel an aircraft has left at the midpoint between it and an airport.
fuel_at_midpoint(aircraft, airport) ==
    LET midpoint == (aircraft.position + airport.position) \div 2
        moved == IF midpoint >= aircraft.position THEN midpoint - aircraft.position
                 ELSE aircraft.position - midpoint
    IN  aircraft.fuel_remaining - moved

\* The step tests a candidate, finds it unsuitable, and the move towards it
\* would leave no fuel.
tests_unreachable_midpoint ==
    /\ Len(dfs_tests') = Len(dfs_tests) + 1
    /\ ~dfs_tests'[Len(dfs_tests')].suitable
    /\ fuel_at_midpoint(dfs_top.aircraft, dfs_candidate) <= 0

snapshots_kept ==
    \A i \in 1..Len(dfs_stack) :
        i <= Len(dfs_stack') => dfs_stack'[i].aircraft = dfs_stack[i].aircraft

\* The snapshot of a frame just pushed is the one the claim describes, made
\* from the snapshot and the candidate of the call that pushed it.
snapshot_made ==
    Len(dfs_stack') = Len(dfs_stack) + 1 /\ dfs_stack # <<>> =>
        LET current == dfs_top.aircraft
            made == dfs_stack'[Len(dfs_stack')].aircraft
            moved == IF made.position >= current.position
                     THEN made.position - current.position
                     ELSE current.position - made.position
        IN  /\ 2 * made.position = current.position + dfs_candidate.position
            /\ made.fuel_remaining = current.fuel_remaining - moved
            /\ made.aircraft_type = current.aircraft_type
            /\ made.emergency_status = current.emergency_status
            /\ made.id = current.id
            /\ dfs_tests'[Len(dfs_tests')].airport = dfs_candidate
            /\ ~dfs_tests'[Len(dfs_tests')].suitable

\* A test is made on the snapshot of the innermost call.
tested_on_current ==
    Len(dfs_tests') = Len(dfs_tests) + 1 =>
        dfs_tests'[Len(dfs_tests')].aircraft = dfs_top.aircraft

\* C26: the search never changes the aircraft passed by the caller nor the
\* snapshot of an enclosing recursion level; for an unsuitable candidate it
\* makes a new snapshot at the midpoint of the current position and the
\* candidate, with the current fuel less the distance to that midpoint and
\* the current type and emergency; after a branch has returned, the next
\* candidate of the level is tested on the unchanged snapshot of that level.
C26_SnapshotsImmutable ==
    /\ [](dfs_pc = "running" => dfs_stack[1].aircraft = dfs_aircraft)
    /\ [][/\ dfs_aircraft' = dfs_aircraft
          /\ snapshots_kept
          /\ snapshot_made
          /\ tested_on_current]_vars

\* C26 witness: with max_depth = 1 the first candidate was unsuitable and
\* there was fuel for the move, so the recursive call was made and returned
\* at the depth limit; the next candidate was then tested at depth 0 on the
\* caller's aircraft, unchanged.
C26_Witness ==
    /\ dfs_max_depth = 1
    /\ Len(dfs_tests) >= 2
    /\ ~dfs_tests[1].suitable
    /\ fuel_at_midpoint(dfs_tests[1].aircraft, dfs_tests[1].airport) > 0
    /\ dfs_tests[2].depth = 0
    /\ dfs_tests[2].aircraft = dfs_aircraft
    /\ dfs_tests[2].airport # dfs_tests[1].airport

(***************************************************************************)
(* The paths of depth_limited_search (SpecDLS).                            *)
(***************************************************************************)
\* The sum of field f (4: distance, 5: time) of the first k segments of path.
RECURSIVE segment_sum(_, _, _)
segment_sum(path, f, k) ==
    IF k = 0 THEN 0 ELSE segment_sum(path, f, k - 1) + path[k][f]

\* The number of waypoint segments of a recorded path.
waypoint_count(p) == Cardinality({i \in 1..Len(p.path) : p.path[i][1] = "WP"})

\* A recorded path: waypoint segments, then the arrival at a qualifying
\* airport, with totals that are the sums over the segments.
well_formed_path(p) ==
    LET n == Len(p.path)
    IN  /\ n >= 1
        /\ \A i \in 1..(n - 1) : p.path[i][1] = "WP"
        /\ p.path[n][1] # "WP"
        /\ p.path[n][1] = p.airport.code
        /\ p.path[n][2] = p.airport.lat
        /\ p.path[n][3] = p.airport.lon
        /\ \E i \in qualifying_airports : p.airport = planner_airports[i]
        /\ n - 1 <= dls_call.max_depth
        /\ p.total_distance = segment_sum(p.path, 4, n)
        /\ p.total_time = segment_sum(p.path, 5, n)

\* C27: every path depth_limited_search records and returns is made of zero
\* or more waypoint segments followed by one airport-arrival segment, the
\* last; the airport is one of the qualifying airports computed from the
\* start; there are at most max_depth waypoint segments; total_distance and
\* total_time are the sums of the segments' distances and times.
C27_PathsWellFormed ==
    /\ \A i \in 1..Len(viable_paths) : well_formed_path(viable_paths[i])
    /\ \A i \in 1..Len(dls_result) : well_formed_path(dls_result[i])

\* C27 witness: one result of a search with max_depth = 2 holds a path with
\* no waypoint, one with one waypoint and one with two.
C27_Witness ==
    /\ dls_pc = "returned"
    /\ dls_call.max_depth = 2
    /\ \A k \in 0..2 : \E i \in 1..Len(dls_result) : waypoint_count(dls_result[i]) = k

(***************************************************************************)
(* The recursion of depth_limited_search (SpecDLSFair).                    *)
(***************************************************************************)
\* The calls of dls_recursive under way: the call at stack position k has
\* depth k - 1, at most max_depth; it has at most 5 waypoints to recurse
\* from, and none at depth max_depth.
recursion_bounded ==
    \A k \in 1..Len(dls_stack) :
        /\ dls_stack[k].depth = k - 1
        /\ dls_stack[k].depth <= dls_call.max_depth
        /\ Len(dls_stack[k].waypoints) <= 5
        /\ dls_stack[k].i - 1 <= Len(dls_stack[k].waypoints)
        /\ dls_stack[k].depth = dls_call.max_depth => dls_stack[k].waypoints = <<>>

\* A recursive call: made by a call below max_depth, one deeper than it, and
\* counted by its caller.
recursive_call_deeper ==
    (Len(dls_stack') = Len(dls_stack) + 1 /\ dls_stack # <<>>) =>
        /\ dls_top.depth < dls_call.max_depth
        /\ dls_stack'[Len(dls_stack')].depth = dls_top.depth + 1
        /\ dls_stack'[Len(dls_stack)].i = dls_top.i + 1

\* C28: depth_limited_search returns for every max_depth >= 0 and every
\* outcome of the sampling; each recursive call is one deeper than its
\* caller and is made only by a call below max_depth, so no call runs deeper
\* than max_depth, and each call makes at most 5 recursive calls.
C28_RecursionBoundedAndTerminates ==
    /\ []recursion_bounded
    /\ [][recursive_call_deeper]_vars
    /\ (dls_pc = "running" ~> dls_pc = "returned")

\* C28 witness: a search with max_depth = 2 has returned after 7 or more
\* calls of dls_recursive, one of them at least at depth 2, and 10 or more
\* numbers drawn.
C28_Witness ==
    /\ dls_pc = "returned"
    /\ dls_call.max_depth = 2
    /\ dls_entered >= 7
    /\ dls_draws >= 10

(***************************************************************************)
(* Properties of check_path_feasibility.                                   *)
(***************************************************************************)
\* x lies between a and b, which are given in either order, ends included.
between(x, a, b) == (a <= x /\ x <= b) \/ (b <= x /\ x <= a)

\* The point is in the box spanned by the two corners.
in_box(point, corners) ==
    /\ between(point[1], corners[1][1], corners[2][1])
    /\ between(point[2], corners[1][2], corners[2][2])

\* Some registered condition of severity above 7 has a band that covers the
\* altitude and a box that holds the start point or the end point.
severe_weather_at_end_point(start, end, altitude) ==
    \E i \in 1..Len(weather_conditions) :
        LET weather == weather_conditions[i]
        IN  /\ weather.min_altitude <= altitude
            /\ altitude <= weather.max_altitude
            /\ weather.severity > 7
            /\ \/ in_box(start, weather.affected_area)
               \/ in_box(end, weather.affected_area)

\* C29: check_path_feasibility reports a segment infeasible if and only if
\* some registered weather condition has min_altitude <= altitude <=
\* max_altitude, severity strictly greater than 7, and the segment's start
\* point or end point inside its bounding box (bounds inclusive, corners in
\* either order); so a condition of severity exactly 7, or one whose box the
\* segment crosses without an end point inside, never makes it infeasible.
C29_InfeasibleIffSevereAtEndPoint ==
    feasibility_call.made =>
        /\ ~feasibility_returned <=>
               severe_weather_at_end_point(feasibility_call.start,
                                           feasibility_call.end,
                                           feasibility_call.altitude)
        /\ (\A i \in 1..Len(weather_conditions) :
                \/ weather_conditions[i].severity <= 7
                \/ /\ ~in_box(feasibility_call.start,
                              weather_conditions[i].affected_area)
                   /\ ~in_box(feasibility_call.end,
                              weather_conditions[i].affected_area))
           => feasibility_returned

\* A segment that ends on the corner of a severity-8 box, at the top of its
\* band, is infeasible, a severity-7 condition having been registered first.
C29_Witness ==
    /\ feasibility_call.made
    /\ feasibility_call.start = <<0, 0>>
    /\ feasibility_call.end = <<3, 1>>
    /\ feasibility_call.altitude = 20000
    /\ Len(weather_conditions) = 2
    /\ weather_conditions[1].severity = 7
    /\ weather_conditions[2].severity = 8
    /\ ~feasibility_returned

(***************************************************************************)
(* Properties of estimate_travel_time.                                     *)
(***************************************************************************)
\* What one zone contributes at an altitude: its delay factor where its band
\* covers the altitude, 1 elsewhere.
zone_factor(zone, altitude) ==
    IF zone.min_altitude <= altitude /\ altitude <= zone.max_altitude
    THEN get_delay_factor(zone, altitude)
    ELSE factor_one

\* The largest of 1 and the registered zones' contributions.
largest_factor(altitude) ==
    LET factors == {factor_one} \cup
                   {zone_factor(traffic_zones[i], altitude) :
                        i \in 1..Len(traffic_zones)}
    IN  CHOOSE m \in factors : \A f \in factors : f <= m

\* distance / aircraft_speed, in the unit of the returned time over factor_one.
base_time_of(distance, aircraft_speed) ==
    distance * (speed_scale \div aircraft_speed)

\* The returned time is the base time times the largest factor.
time_is_base_by_largest ==
    travel_time_call.made =>
        LET base == base_time_of(travel_time_call.distance,
                                 travel_time_call.aircraft_speed)
            m == largest_factor(travel_time_call.altitude)
        IN  /\ travel_time_returned = base * m
            /\ m >= factor_one
            /\ travel_time_returned >= base * factor_one

\* Registering a zone lowers no estimate.
zone_never_lowers ==
    \A zone \in TrafficZonePool :
        add_traffic_zone(zone) =>
            \A distance \in QueryDistances, aircraft_speed \in SearchSpeeds,
               altitude \in QueryAltitudes :
                estimate_travel_time(distance, aircraft_speed, altitude)' >=
                    estimate_travel_time(distance, aircraft_speed, altitude)

\* C30: estimate_travel_time multiplies the base time distance/speed by one
\* multiplier, the maximum of 1 and the delay factors of all registered
\* traffic zones (not their product or sum); a zone whose band does not cover
\* the altitude contributes 1; so the multiplier is at least 1, the estimate
\* is never below the base time, and adding a zone never lowers an estimate.
C30_TimeIsBaseByLargestFactor ==
    /\ []time_is_base_by_largest
    /\ [][zone_never_lowers]_vars

\* Two zones that both slow the leg down, the first more than the second:
\* the estimate is the base time times the first zone's factor.
C30_Witness ==
    /\ travel_time_call.made
    /\ travel_time_call.distance > 0
    /\ Len(traffic_zones) = 2
    /\ LET first == get_delay_factor(traffic_zones[1], travel_time_call.altitude)
           second == get_delay_factor(traffic_zones[2], travel_time_call.altitude)
       IN  /\ first > second
           /\ second > factor_one
           /\ travel_time_returned =
                  base_time_of(travel_time_call.distance,
                               travel_time_call.aircraft_speed) * first

(***************************************************************************)
(* Independence of the two hazard sets (SpecToggle).                       *)
(***************************************************************************)
\* The two ordered pairs a call on (a, b) names.
named_pairs(a, b) == {<<a, b>>, <<b, a>>}

\* The call about to be made repeats the hazard call made last.
repeats_last_call(op, a, b, flag) ==
    /\ Len(hazard_calls) >= 1
    /\ hazard_calls[Len(hazard_calls)] = hazard_call(op, a, b, flag)

\* An update_congestion step writes congested_routes only, and there only
\* the membership of the named pairs; a repeated call writes nothing.
congestion_update_local ==
    \A p \in TogglePairs, flag \in BOOLEAN :
        update_congestion(p[1], p[2], flag) =>
            /\ UNCHANGED <<weather_affected_routes, routes, airports>>
            /\ congested_routes' \ named_pairs(p[1], p[2]) =
                   congested_routes \ named_pairs(p[1], p[2])
            /\ repeats_last_call("update_congestion", p[1], p[2], flag) =>
                   UNCHANGED congested_routes

\* The same for update_weather and weather_affected_routes.
weather_update_local ==
    \A p \in TogglePairs, flag \in BOOLEAN :
        update_weather(p[1], p[2], flag) =>
            /\ UNCHANGED <<congested_routes, routes, airports>>
            /\ weather_affected_routes' \ named_pairs(p[1], p[2]) =
                   weather_affected_routes \ named_pairs(p[1], p[2])
            /\ repeats_last_call("update_weather", p[1], p[2], flag) =>
                   UNCHANGED weather_affected_routes

\* C31: the congested set and the weather-affected set are independent:
\* update_congestion leaves the weather-affected set, the route table and the
\* airports table unchanged, update_weather leaves the congested set, the
\* route table and the airports table unchanged, each changes the membership
\* of the pairs (a, b) and (b, a) it names only, and repeating the same update
\* call has no further effect.
C31_HazardSetsIndependent ==
    [][congestion_update_local /\ weather_update_local]_vars

\* C31 witness: weather was set on B-C while both routes A-B and B-C were
\* congested, and the same update_weather call was then made again: the
\* congested set still holds all four pairs and the weather-affected set the
\* two named ones.
C31_Witness ==
    /\ hazard_calls = << hazard_call("update_congestion", "A", "B", TRUE),
                         hazard_call("update_weather", "C", "B", TRUE),
                         hazard_call("update_weather", "C", "B", TRUE) >>
    /\ congested_routes = {<<"A", "B">>, <<"B", "A">>, <<"B", "C">>, <<"C", "B">>}
    /\ weather_affected_routes = {<<"B", "C">>, <<"C", "B">>}

(***************************************************************************)
(* The shape of the paths bfs_shortest_path returns (SpecBFS).             *)
(***************************************************************************)
\* No node occurs twice in p.
simple(p) == \A i, j \in 1..Len(p) : p[i] = p[j] => i = j

\* v is the destination of an entry of u's adjacency list.
adjacent(u, v) ==
    /\ u \in DOMAIN routes
    /\ \E i \in 1..Len(routes[u]) : routes[u][i][1] = v

\* C32: every path returned by bfs_shortest_path is a simple path in the
\* filtered graph: no node occurs twice, every consecutive pair (u, v) is an
\* entry of u's adjacency list, and when avoid_congestion is true no
\* consecutive pair (u, v) is in the congested set or in the weather-affected
\* set.
C32_ReturnedPathSimpleAndFiltered ==
    bfs_returned_path =>
        LET p == bfs_result.path
        IN  /\ simple(p)
            /\ \A k \in 1..(Len(p) - 1) :
                   /\ adjacent(p[k], p[k + 1])
                   /\ bfs_call.avoid_congestion =>
                          /\ <<p[k], p[k + 1]>> \notin congested_routes
                          /\ <<p[k], p[k + 1]>> \notin weather_affected_routes

\* C32 witness: the routes A-C and B-C exist, the first is congested and the
\* second weather-affected, and the search that avoids hazards has returned
\* the three-edge path through D and E.
C32_Witness ==
    /\ bfs_returned_path
    /\ bfs_call.avoid_congestion
    /\ bfs_result.path = <<"A", "D", "E", "C">>
    /\ adjacent("A", "C") /\ <<"A", "C">> \in congested_routes
    /\ adjacent("B", "C") /\ <<"B", "C">> \in weather_affected_routes

(***************************************************************************)
(* Searches compared with one another (SpecBFS).                           *)
(***************************************************************************)
\* The number of edges of a returned path.
hops(result) == Len(result.path) - 1

\* Two results agree on whether a path was found and, if so, on its hops.
same_outcome(r1, r2) ==
    /\ r1.path = None <=> r2.path = None
    /\ r1.path # None => hops(r1) = hops(r2)

\* The search that has returned gave what the loop gives as a function.
returned_is_result ==
    bfs_pc = "returned" =>
        bfs_result = bfs_shortest_path_result(bfs_call.start, bfs_call.goal,
                                              bfs_call.avoid_congestion,
                                              bfs_call.prioritize_fuel)

\* C33: in a network built by add_airport, add_route, update_congestion and
\* update_weather, and for fixed options, bfs_shortest_path(a, b) returns a
\* path if and only if bfs_shortest_path(b, a) returns one, and the two paths
\* have the same number of hops.  The search from a to b is the one that has
\* run; the search from b to a is the loop as a function, which gives what a
\* search that has run returned.
C33_SearchSymmetric ==
    /\ returned_is_result
    /\ bfs_pc = "returned" =>
           same_outcome(bfs_result,
                        bfs_shortest_path_result(bfs_call.goal, bfs_call.start,
                                                 bfs_call.avoid_congestion,
                                                 bfs_call.prioritize_fuel))

\* C33 witness: with A-C congested and B-C weather-affected, the search from
\* A to C that avoids hazards returned a three-edge path, and the search from
\* C to A returns the three-edge path back.
C33_Witness ==
    /\ bfs_returned_path
    /\ bfs_call.avoid_congestion
    /\ bfs_call.start = "A" /\ bfs_call.goal = "C"
    /\ hops(bfs_result) = 3
    /\ <<"A", "C">> \in congested_routes
    /\ <<"B", "C">> \in weather_affected_routes
    /\ bfs_shortest_path_result("C", "A", TRUE, bfs_call.prioritize_fuel).path
           = <<"C", "E", "D", "A">>

\* C34: relaxing the filter never loses a route: if the search with
\* avoid_congestion=True returns a path, the search with avoid_congestion=
\* False on the same network returns one too, with no more hops; and changing
\* prioritize_fuel changes neither whether a path is found nor its number of
\* hops.  The search with the options of the call is the one that has run.
C34_RelaxingKeepsRoutes ==
    bfs_pc = "returned" =>
        LET relaxed == bfs_shortest_path_result(bfs_call.start, bfs_call.goal,
                                                FALSE, bfs_call.prioritize_fuel)
            other_order == bfs_shortest_path_result(bfs_call.start, bfs_call.goal,
                                                    bfs_call.avoid_congestion,
                                                    ~bfs_call.prioritize_fuel)
        IN  /\ (bfs_call.avoid_congestion /\ bfs_result.path # None) =>
                   /\ relaxed.path # None
                   /\ hops(relaxed) <= hops(bfs_result)
            /\ same_outcome(bfs_result, other_order)

\* C34 witness: with A-C congested and two parallel routes A-B, the search
\* that avoids hazards returned A-B-C over the first A-B route; the relaxed
\* search returns the one-edge path A-C, and the search that prioritizes fuel
\* the same two hops over the second A-B route.
C34_Witness ==
    /\ bfs_returned_path
    /\ bfs_call.avoid_congestion /\ ~bfs_call.prioritize_fuel
    /\ bfs_result.path = <<"A", "B", "C">>
    /\ bfs_result.total_distance = 200
    /\ bfs_shortest_path_result("A", "C", FALSE, FALSE).path = <<"A", "C">>
    /\ bfs_shortest_path_result("A", "C", TRUE, TRUE).path = <<"A", "B", "C">>
    /\ bfs_shortest_path_result("A", "C", TRUE, TRUE).total_distance = 180

(***************************************************************************)
(* Termination of emergency_landing_dfs (SpecDFSFair).                     *)
(***************************************************************************)
\* Every call under way runs at a depth no greater than the number of
\* identifiers visited, which is no greater than the number of identifiers.
depth_within_visited ==
    /\ \A i \in 1..Len(dfs_stack) :
           dfs_stack[i].depth <= Cardinality(dfs_visited)
    /\ Cardinality(dfs_visited) <= Cardinality(airport_ids)

\* A step that makes a recursive call puts a new identifier, that of the
\* airport the call moves towards, in the visited set.
recursion_marks_new ==
    (dfs_pc = "running" /\ Len(dfs_stack') > Len(dfs_stack)) =>
        /\ dfs_candidate.id \notin dfs_visited
        /\ dfs_visited' = dfs_visited \cup {dfs_candidate.id}
        /\ dfs_stack'[Len(dfs_stack')].depth = dfs_top.depth + 1

\* C35: emergency_landing_dfs terminates on every finite airports list, also
\* when max_depth is not given: every recursive call is preceded by adding a
\* new identifier to the shared visited set, so the recursion depth never
\* exceeds the number of distinct airport identifiers, whatever the fuel.
C35_TerminatesWithoutMaxDepth ==
    /\ []depth_within_visited
    /\ [][recursion_marks_new]_vars
    /\ (dfs_pc = "running" ~> dfs_pc = "returned")

\* C35 witness: without max_depth, on a list of three airports all of which
\* were tested and found unsuitable, the third at depth 2, the search has
\* returned none.
C35_Witness ==
    /\ dfs_pc = "returned"
    /\ dfs_max_depth = no_max_depth
    /\ dfs_result = no_airport
    /\ Cardinality(airport_ids) = 3
    /\ Len(dfs_tests) = 3
    /\ dfs_tests[3].depth = 2

====
